---------------------------- MODULE Spec2Model ----------------------------
(***************************************************************************)
(* Model of the OpenVPN status parser (package parser): ParseFile, the    *)
(* line dispatcher parseLine and the record decoders handleTitle,         *)
(* handleTime, handleClientListV1, handleClientListV2V3 and               *)
(* handleRoutingTable.                                                     *)
(*                                                                         *)
(* A Go string is a sequence of one-character strings, so that            *)
(* strings.Split, strings.TrimSpace, strings.Join and strconv.ParseInt    *)
(* are computed character by character as the library computes them.      *)
(* A Go `error` result is a sequence: <<>> is nil, <<e>> is the error e.   *)
(* A Go pointer that may be nil is a sequence too (Status.Server).         *)
(***************************************************************************)
EXTENDS Integers, Sequences, FiniteSets, TLC

VARIABLES
    pc,           \* position of ParseFile: "open", "scan", "returned"
    version,      \* argument version of ParseFile (1, 2 or 3)
    canOpen,      \* environment: whether os.Open(filepath) succeeds
    file,         \* environment: the lines of the status file, in order
    handle,       \* the file handle: "none", "open", "closed"
    statusPtr,    \* the *Status ParseFile holds/returns: "nil" or "ptr"
    status,       \* the Status structure behind statusPtr
    parseErrors,  \* the []error accumulated by ParseFile
    lineNum,      \* ParseFile's lineNum counter
    scanErr,      \* whether scanner.Err() is non-nil (read failure)
    instance,     \* heap: the number of Status structures allocated so
                  \* far, which identifies the one behind statusPtr
    first,        \* caller: what an earlier call of ParseFile returned
                  \* (<<>> before a second call is made)
    cfgPc,        \* position of ParseConfig: "idle", "open", "scan",
                  \* "returned"
    cfgCanOpen,   \* environment: whether os.Open(configPath) succeeds
    cfgFile,      \* environment: the lines of the config file, in order
    cfgLineNum,   \* ParseConfig's lineNum counter
    config,       \* the ServerConfig ParseConfig fills in
    cfgPtr,       \* the *ServerConfig ParseConfig returns: "nil" or "ptr"
    cfgErr,       \* the error ParseConfig returns (<<>> is nil)
    flags,        \* main: the command-line flags
    stdout,       \* main: what has been written to os.Stdout, in order
    stderr,       \* main: what has been written to os.Stderr, in order
    exitCode,     \* main: <<>> while running, <<c>> once exited with c
    fmtPc,        \* position of a direct Format call: "idle", "format",
                  \* "formatted"
    output        \* the string a direct Format call returned

\* the variables of ParseFile and its environment
parseVars == <<pc, version, canOpen, file, handle, statusPtr, status,
               parseErrors, lineNum, scanErr, instance>>

\* the variables of the callers of ParseFile
configVars == <<cfgPc, cfgCanOpen, cfgFile, cfgLineNum, config, cfgPtr, cfgErr>>
cliVars == <<flags, stdout, stderr, exitCode>>
fmtVars == <<fmtPc, output>>
callerVars == <<configVars, cliVars, fmtVars>>
outerVars == <<first, callerVars>>

vars == <<parseVars, outerVars>>

(***************************************************************************)
(* Bounds                                                                  *)
(***************************************************************************)
MaxLines == 2

(***************************************************************************)
(* Program constants                                                       *)
(***************************************************************************)
Version1 == 1
Version2 == 2
Version3 == 3

COMMA == ","
TAB == "\t"
COLON == ":"
SPACE == " "

TITLE == <<"T", "I", "T", "L", "E">>
TIME == <<"T", "I", "M", "E">>
HEADER == <<"H", "E", "A", "D", "E", "R">>
CLIENT_LIST == <<"C", "L", "I", "E", "N", "T", "_", "L", "I", "S", "T">>
ROUTING_TABLE == <<"R", "O", "U", "T", "I", "N", "G", "_", "T", "A", "B", "L", "E">>

(***************************************************************************)
(* Library functions (strings, strconv)                                    *)
(***************************************************************************)
\* unicode.IsSpace restricted to the characters of the model's alphabet
IsSpace(c) == c \in {SPACE, TAB, "\n", "\r"}

RECURSIVE TrimLeft(_)
TrimLeft(s) ==
    IF s # <<>> /\ IsSpace(Head(s)) THEN TrimLeft(Tail(s)) ELSE s

RECURSIVE TrimRight(_)
TrimRight(s) ==
    IF s # <<>> /\ IsSpace(s[Len(s)])
    THEN TrimRight(SubSeq(s, 1, Len(s) - 1))
    ELSE s

\* strings.TrimSpace
TrimSpace(s) == TrimRight(TrimLeft(s))

\* strings.Index for a one-character separator; 0 when absent
RECURSIVE IndexFrom(_, _, _)
IndexFrom(s, sep, i) ==
    IF i > Len(s) THEN 0
    ELSE IF s[i] = sep THEN i
    ELSE IndexFrom(s, sep, i + 1)

\* strings.Split(s, sep) for a one-character separator
RECURSIVE Split(_, _)
Split(s, sep) ==
    LET i == IndexFrom(s, sep, 1)
    IN  IF i = 0 THEN <<s>>
        ELSE <<SubSeq(s, 1, i - 1)>> \o Split(SubSeq(s, i + 1, Len(s)), sep)

\* strings.Join(elems, sep) for a one-character separator
RECURSIVE Join(_, _)
Join(elems, sep) ==
    IF elems = <<>> THEN <<>>
    ELSE IF Len(elems) = 1 THEN elems[1]
    ELSE elems[1] \o <<sep>> \o Join(Tail(elems), sep)

Digits == {"0", "1", "2", "3", "4", "5", "6", "7", "8", "9"}

DigitVal(c) ==
    CASE c = "0" -> 0 [] c = "1" -> 1 [] c = "2" -> 2 [] c = "3" -> 3
      [] c = "4" -> 4 [] c = "5" -> 5 [] c = "6" -> 6 [] c = "7" -> 7
      [] c = "8" -> 8 [] c = "9" -> 9

AllDigits(s) == \A i \in 1..Len(s) : s[i] \in Digits

RECURSIVE StripZeros(_)
StripZeros(s) ==
    IF Len(s) > 1 /\ Head(s) = "0" THEN StripZeros(Tail(s)) ELSE s

\* a > b for two digit strings of the same length
RECURSIVE DigitsGreater(_, _)
DigitsGreater(a, b) ==
    IF a = <<>> THEN FALSE
    ELSE IF DigitVal(Head(a)) # DigitVal(Head(b))
         THEN DigitVal(Head(a)) > DigitVal(Head(b))
         ELSE DigitsGreater(Tail(a), Tail(b))

\* 1<<63 - 1, the largest int64, as a digit string
MaxInt64Digits ==
    <<"9", "2", "2", "3", "3", "7", "2", "0", "3", "6",
      "8", "5", "4", "7", "7", "5", "8", "0", "7">>

\* 1<<63, the magnitude of the smallest int64
MinInt64Digits ==
    <<"9", "2", "2", "3", "3", "7", "2", "0", "3", "6",
      "8", "5", "4", "7", "7", "5", "8", "0", "8">>

\* the magnitude d (digits, no leading zeros) exceeds the limit lim
ExceedsLimit(d, lim) ==
    \/ Len(d) > Len(lim)
    \/ Len(d) = Len(lim) /\ DigitsGreater(d, lim)

RECURSIVE DigitsValue(_, _)
DigitsValue(s, acc) ==
    IF s = <<>> THEN acc
    ELSE DigitsValue(Tail(s), acc * 10 + DigitVal(Head(s)))

\* strconv.ParseInt(s, 10, 64): err is "nil", "syntax" (ErrSyntax) or
\* "range" (ErrRange); val is the parsed value when err is "nil"
ParseInt(s) ==
    IF s = <<>> THEN [val |-> 0, err |-> "syntax"]
    ELSE
      LET neg == Head(s) = "-"
          body == IF Head(s) \in {"+", "-"} THEN Tail(s) ELSE s
          mag == StripZeros(body)
      IN  IF body = <<>> \/ ~AllDigits(body)
          THEN [val |-> 0, err |-> "syntax"]
          ELSE IF ExceedsLimit(mag, IF neg THEN MinInt64Digits
                                           ELSE MaxInt64Digits)
          THEN [val |-> 0, err |-> "range"]
          ELSE [val |-> IF neg THEN 0 - DigitsValue(mag, 0)
                               ELSE DigitsValue(mag, 0),
                err |-> "nil"]

(***************************************************************************)
(* Types (package parser)                                                  *)
(***************************************************************************)
\* Client{}: the zero value
ZeroClient ==
    [CommonName |-> <<>>, RealAddress |-> <<>>, VirtualAddress |-> <<>>,
     VirtualIPv6Address |-> <<>>, BytesReceived |-> 0, BytesSent |-> 0,
     ConnectedSince |-> <<>>, ConnectedSinceTime |-> 0, Username |-> <<>>,
     ClientID |-> 0, PeerID |-> 0, DataCipher |-> <<>>]

\* Route{}: the zero value
ZeroRoute ==
    [VirtualAddress |-> <<>>, CommonName |-> <<>>, RealAddress |-> <<>>,
     LastRef |-> <<>>, LastRefTime |-> 0]

\* ParseError{Line, Field, Value, Err}
\* variant of ParseError: the line number counts from 0
ParseErrorZeroIndexed(line, field, value, err) ==
    [Line |-> line - 1, Field |-> field, Value |-> value, Err |-> err]

ParseError(line, field, value, err) ==
    [Line |-> line, Field |-> field, Value |-> value, Err |-> err]

\* fmt.Errorf("...: %w", err): an error that is not a ParseError
WrappedError(kind) ==
    [Line |-> 0, Field |-> "", Value |-> <<>>, Err |-> kind]

\* &Status{ClientList: make(..), RoutingTable: make(..), Time: make(..)}
EmptyStatus ==
    [Server |-> <<>>, Title |-> <<>>, Time |-> <<>>,
     ClientList |-> <<>>, RoutingTable |-> <<>>]

\* the outcome of a handler: the Status it leaves and the error it returns
Outcome(st, err) == [status |-> st, err |-> err]

\* the zero value of config.ServerConfig
ZeroServerConfig ==
    [ID |-> <<>>, Local |-> <<>>, Port |-> <<>>, Proto |-> <<>>, Dev |-> <<>>,
     StatusFile |-> <<>>, StatusVersion |-> 0]

\* the defaults of the command-line flags of main
DefaultFlags ==
    [file |-> "", format |-> "json", indent |-> FALSE, version |-> FALSE]

(***************************************************************************)
(* Record decoders                                                         *)
(***************************************************************************)
\* fields[i] with Go's 0-based index
At(fields, i) == fields[i + 1]

\* variant of parseNumericField: the empty text is handed to ParseInt too
parseNumericFieldNoEmptyCheck(text, field, ln) ==
    LET r == ParseInt(text)
    IN  IF r.err # "nil"
        THEN [val |-> 0, errs |-> <<ParseError(ln, field, text, r.err)>>]
        ELSE [val |-> r.val, errs |-> <<>>]

\* the block `if fields[i] != "" { if val, err := strconv.ParseInt(...) ...`:
\* the value stored in the record and the errors appended to errs
parseNumericField(text, field, ln) ==
    IF text # <<>>
    THEN LET r == ParseInt(text)
         IN  IF r.err # "nil"
             THEN [val |-> 0, errs |-> <<ParseError(ln, field, text, r.err)>>]
             ELSE [val |-> r.val, errs |-> <<>>]
    ELSE [val |-> 0, errs |-> <<>>]

\* aparts := strings.Split(field, ":"); aparts[0]
stripPort(field) == Split(field, COLON)[1]

\* variant of firstError: the last collected error is returned
lastError(errs) == IF Len(errs) > 0 THEN <<errs[Len(errs)]>> ELSE <<>>

\* `if len(errs) > 0 { return errs[0] }; return nil`
firstError(errs) == IF Len(errs) > 0 THEN <<errs[1]>> ELSE <<>>

handleTitle(fields, st, ln) ==
    IF Len(fields) < 2
    THEN Outcome(st, <<ParseError(ln, "TITLE", Join(fields, COMMA), "count")>>)
    ELSE Outcome([st EXCEPT !.Title = At(fields, 1)], <<>>)

\* variant of handleTime: the fields are added to the time sequence
handleTimeAppending(fields, st, ln) ==
    IF Len(fields) < 2
    THEN Outcome(st, <<ParseError(ln, "TIME", Join(fields, COMMA), "count")>>)
    ELSE Outcome([st EXCEPT !.Time = @ \o Tail(fields)], <<>>)

handleTime(fields, st, ln) ==
    IF Len(fields) < 2
    THEN Outcome(st, <<ParseError(ln, "TIME", Join(fields, COMMA), "count")>>)
    ELSE Outcome([st EXCEPT !.Time = Tail(fields)], <<>>)

expectedFieldsV1 == 5

\* handleClientListV1 past its field-count check: the client is decoded
\* and appended, the first field error is returned
appendClientV1(fields, st, ln) ==
    LET br == parseNumericField(At(fields, 2), "bytesReceived", ln)
        bs == parseNumericField(At(fields, 3), "bytesSent", ln)
        errs == br.errs \o bs.errs
        client == [ZeroClient EXCEPT
                     !.CommonName = At(fields, 0),
                     !.RealAddress = stripPort(At(fields, 1)),
                     !.BytesReceived = br.val,
                     !.BytesSent = bs.val,
                     !.ConnectedSince = At(fields, 4)]
    IN  Outcome([st EXCEPT !.ClientList = Append(@, client)],
                firstError(errs))

handleClientListV1(fields, st, ln) ==
    IF Len(fields) < expectedFieldsV1
    THEN Outcome(st, <<ParseError(ln, "CLIENT_LIST_V1",
                                  Join(fields, COMMA), "count")>>)
    ELSE appendClientV1(fields, st, ln)

minFields == 12

\* handleClientListV2V3 past its field-count check: the client is decoded
\* and appended, the first field error is returned
appendClientV2V3(fields, st, ln) ==
    LET br == parseNumericField(At(fields, 5), "bytesReceived", ln)
        bs == parseNumericField(At(fields, 6), "bytesSent", ln)
        ct == parseNumericField(At(fields, 8), "connectedSinceTime", ln)
        ci == parseNumericField(At(fields, 10), "clientId", ln)
        pi == parseNumericField(At(fields, 11), "peerId", ln)
        errs == br.errs \o bs.errs \o ct.errs \o ci.errs \o pi.errs
        client == [ZeroClient EXCEPT
                     !.CommonName = At(fields, 1),
                     !.RealAddress = stripPort(At(fields, 2)),
                     !.VirtualAddress = At(fields, 3),
                     !.VirtualIPv6Address = At(fields, 4),
                     !.BytesReceived = br.val,
                     !.BytesSent = bs.val,
                     !.ConnectedSince = At(fields, 7),
                     !.ConnectedSinceTime = ct.val,
                     !.Username = At(fields, 9),
                     !.ClientID = ci.val,
                     !.PeerID = pi.val,
                     !.DataCipher = IF Len(fields) > 12 /\ At(fields, 12) # <<>>
                                    THEN At(fields, 12) ELSE <<>>]
    IN  Outcome([st EXCEPT !.ClientList = Append(@, client)],
                firstError(errs))

\* variant of handleClientListV2V3: a client with a field error is not
\* appended
handleClientListV2V3DropOnError(fields, st, ln) ==
    IF Len(fields) < minFields
    THEN Outcome(st, <<ParseError(ln, "CLIENT_LIST",
                                  Join(fields, COMMA), "count")>>)
    ELSE LET r == appendClientV2V3(fields, st, ln)
         IN  IF r.err # <<>> THEN Outcome(st, r.err) ELSE r

\* variant of handleClientListV2V3: the floor error carries the field name
\* of the version-1 decoder
handleClientListV2V3WrongField(fields, st, ln) ==
    IF Len(fields) < minFields
    THEN Outcome(st, <<ParseError(ln, "CLIENT_LIST_V1",
                                  Join(fields, COMMA), "count")>>)
    ELSE appendClientV2V3(fields, st, ln)

handleClientListV2V3(fields, st, ln) ==
    IF Len(fields) < minFields
    THEN Outcome(st, <<ParseError(ln, "CLIENT_LIST",
                                  Join(fields, COMMA), "count")>>)
    ELSE appendClientV2V3(fields, st, ln)

expectedFieldsRoute == 6

\* handleRoutingTable past its field-count check: the route is decoded
\* and appended, the first field error is returned
\* variant of appendRoute: the route is put in front of the routing table
appendRouteInFront(fields, st, ln) ==
    LET lr == parseNumericField(At(fields, 5), "lastRefTime", ln)
        errs == lr.errs
        route == [ZeroRoute EXCEPT
                    !.VirtualAddress = At(fields, 1),
                    !.CommonName = At(fields, 2),
                    !.RealAddress = stripPort(At(fields, 3)),
                    !.LastRef = At(fields, 4),
                    !.LastRefTime = lr.val]
    IN  Outcome([st EXCEPT !.RoutingTable = <<route>> \o @],
                firstError(errs))

appendRoute(fields, st, ln) ==
    LET lr == parseNumericField(At(fields, 5), "lastRefTime", ln)
        errs == lr.errs
        route == [ZeroRoute EXCEPT
                    !.VirtualAddress = At(fields, 1),
                    !.CommonName = At(fields, 2),
                    !.RealAddress = stripPort(At(fields, 3)),
                    !.LastRef = At(fields, 4),
                    !.LastRefTime = lr.val]
    IN  Outcome([st EXCEPT !.RoutingTable = Append(@, route)],
                firstError(errs))

\* variant of handleRoutingTable: the virtual address and the common name
\* are read from each other's position
handleRoutingTableSwapped(fields, st, ln) ==
    IF Len(fields) < expectedFieldsRoute
    THEN Outcome(st, <<ParseError(ln, "ROUTING_TABLE",
                                  Join(fields, COMMA), "count")>>)
    ELSE appendRoute(<<At(fields, 0), At(fields, 2), At(fields, 1)>>
                       \o SubSeq(fields, 4, Len(fields)), st, ln)

handleRoutingTable(fields, st, ln) ==
    IF Len(fields) < expectedFieldsRoute
    THEN Outcome(st, <<ParseError(ln, "ROUTING_TABLE",
                                  Join(fields, COMMA), "count")>>)
    ELSE appendRoute(fields, st, ln)

(***************************************************************************)
(* Line dispatcher                                                         *)
(***************************************************************************)
\* variant of parseLine: version 1 is dispatched on the leading tag too
parseLineTagged(line, st, ln, ver, delimiter) ==
    LET fields == Split(line, delimiter)
        lineType == At(fields, 0)
    IN  CASE lineType = TITLE -> handleTitle(fields, st, ln)
          [] lineType = TIME -> handleTime(fields, st, ln)
          [] lineType = HEADER -> Outcome(st, <<>>)
          [] lineType = CLIENT_LIST -> handleClientListV2V3(fields, st, ln)
          [] lineType = ROUTING_TABLE -> handleRoutingTable(fields, st, ln)
          [] OTHER -> IF ver = Version1
                      THEN handleClientListV1(fields, st, ln)
                      ELSE Outcome(st, <<>>)

\* variant of parseLine: under versions 2 and 3 a tag that is not known
\* is an error
parseLineRejectUnknown(line, st, ln, ver, delimiter) ==
    LET fields == Split(line, delimiter)
    IN  IF Len(fields) = 0 THEN Outcome(st, <<>>)
        ELSE IF ver = Version1 THEN handleClientListV1(fields, st, ln)
        ELSE LET lineType == At(fields, 0)
             IN  CASE lineType = TITLE -> handleTitle(fields, st, ln)
                   [] lineType = TIME -> handleTime(fields, st, ln)
                   [] lineType = HEADER -> Outcome(st, <<>>)
                   [] lineType = CLIENT_LIST ->
                          handleClientListV2V3(fields, st, ln)
                   [] lineType = ROUTING_TABLE ->
                          handleRoutingTable(fields, st, ln)
                   [] OTHER -> Outcome(st, <<ParseError(ln, "tag",
                                              Join(fields, COMMA), "unknown")>>)

parseLine(line, st, ln, ver, delimiter) ==
    LET fields == Split(line, delimiter)
    IN  IF Len(fields) = 0 THEN Outcome(st, <<>>)
        ELSE IF ver = Version1 THEN handleClientListV1(fields, st, ln)
        ELSE LET lineType == At(fields, 0)
             IN  CASE lineType = TITLE -> handleTitle(fields, st, ln)
                   [] lineType = TIME -> handleTime(fields, st, ln)
                   [] lineType = HEADER -> Outcome(st, <<>>)
                   [] lineType = CLIENT_LIST ->
                          handleClientListV2V3(fields, st, ln)
                   [] lineType = ROUTING_TABLE ->
                          handleRoutingTable(fields, st, ln)
                   [] OTHER -> Outcome(st, <<>>)

\* `delimiter := ","; if version == Version3 { delimiter = "\t" }`
delimiterOf(ver) == IF ver = Version3 THEN TAB ELSE COMMA

(***************************************************************************)
(* Inputs: the status files ParseFile is run on.  A file is a sequence of  *)
(* at most MaxLines lines; a line is the join of a field list with the     *)
(* delimiter of its layout, or a blank or padded line.                     *)
(***************************************************************************)
fU == <<"u">>
fV == <<"v">>
fW == <<"f", "d", ":", ":", "1">>
fT == <<"T", "1">>
fN == <<"n">>
fC == <<"A", "E", "S">>
fAddr == <<"a", ":", "5">>
fAddr6 == <<"a", ":", "b", ":", "5">>
fNoPort == <<"a">>
fBig == MinInt64Digits

\* field lists of the version-1 layout (no tag)
FieldListsV1 ==
    { <<fU, fAddr, <<"1", "0">>, <<"2", "0">>, fT>>,
      <<fU, fAddr6, <<"7">>, <<"8">>, fT>>,
      <<fU, fNoPort, <<"7">>, <<"8">>, fT>>,
      <<fU, fAddr, <<"x">>, <<"8">>, fT>>,
      <<fU, fAddr, <<"7">>, <<"y">>, fT>>,
      <<fU, fAddr, <<"x">>, <<"y">>, fT>>,
      <<fU, fAddr, <<>>, <<"8">>, fT>>,
      <<fU, fAddr, <<>>, <<"y">>, fT>>,
      <<fU, fAddr, <<"-", "3">>, <<"+", "4">>, fT>>,
      <<fU, fAddr, fBig, <<"y">>, fT>>,
      <<fU, fAddr, <<"7">>, <<"8">>, fT, <<"z">>>>,
      <<fU, fAddr, <<"7">>>>,
      <<<<>>, fAddr, <<"7">>, <<"8">>, fT>>,
      <<TITLE, fT>>,
      <<ROUTING_TABLE, fV, fU, fAddr, fT, <<"9">>>> }

\* a CLIENT_LIST field list of the version-2/3 layout
ClientFields(addr, br, bs, ct, ci, pi, tail) ==
    <<CLIENT_LIST, fU, addr, fV, fW, br, bs, fT, ct, fN, ci, pi>> \o tail

\* field lists of the version-2/3 layout (leading type tag)
FieldListsV2V3 ==
    { <<TITLE, fT>>,
      <<TITLE, fU, fV>>,
      <<TITLE>>,
      <<TIME, fT, <<"9">>>>,
      <<TIME>>,
      <<HEADER, CLIENT_LIST, fU>>,
      <<<<"E", "N", "D">>>>,
      ClientFields(fAddr, <<"1", "0">>, <<"2", "0">>, <<"9">>, <<"1">>,
                   <<"2">>, <<fC>>),
      ClientFields(fAddr6, <<"7">>, <<"8">>, <<"9">>, <<"1">>, <<"2">>, <<>>),
      ClientFields(fNoPort, <<"x">>, <<"8">>, <<"9">>, <<"1">>, <<"2">>, <<>>),
      ClientFields(fAddr, <<"x">>, <<"8">>, <<"e">>, <<"1">>, <<"q">>, <<>>),
      ClientFields(fAddr, <<"7">>, <<"y">>, <<"9">>, <<"i">>, <<"2">>, <<fC>>),
      ClientFields(fAddr, <<>>, <<>>, <<>>, <<>>, <<>>, <<fC>>),
      ClientFields(fAddr, <<>>, <<"8">>, <<"e">>, <<>>, <<"2">>, <<>>),
      ClientFields(fAddr, <<"7">>, fBig, <<"9">>, <<"1">>, <<"q">>, <<>>),
      ClientFields(fAddr, <<"7">>, <<"8">>, <<"9">>, <<"1">>, <<>>, <<>>),
      ClientFields(fAddr, <<"7">>, <<"8">>, <<"9">>, <<"1">>, <<"2">>,
                   <<<<>>, fU>>),
      <<CLIENT_LIST, fU, fAddr>>,
      <<CLIENT_LIST, <<>>, fAddr, fV, <<>>, <<"7">>, <<"8">>, fT, <<"9">>,
        <<>>, <<"1">>, <<"2">>>>,
      <<ROUTING_TABLE, <<>>, fU, fAddr, fT, <<"9">>>>,
      <<ROUTING_TABLE, fV, fU, fAddr, fT, <<"9">>>>,
      <<ROUTING_TABLE, fV, fU, fAddr6, fT, <<"z">>>>,
      <<ROUTING_TABLE, fV, fU, fNoPort, fT, <<>>, fU>>,
      <<ROUTING_TABLE, fV, fU, fAddr, fT>> }

\* blank lines and a padded line
OtherLines ==
    { <<>>, <<SPACE>>,
      <<SPACE>> \o Join(<<fU, fAddr, <<"7">>, <<"8">>, fT>>, COMMA)
                \o <<SPACE>> }

\* the lines a file parsed as version ver is made of
InputLines(ver) ==
    IF ver = Version1
    THEN { Join(f, COMMA) : f \in FieldListsV1 }
         \cup { Join(<<fU, fAddr, <<"7">>, <<"8">>, fT>>, TAB) }
         \cup OtherLines
    ELSE { Join(f, delimiterOf(ver)) : f \in FieldListsV2V3 }
         \cup { Join(<<TITLE, fT>>, delimiterOf(5 - ver)) }
         \cup OtherLines

\* the sequences of at most n elements of S
SeqsUpTo(S, n) == UNION { [1..k -> S] : k \in 0..n }

(***************************************************************************)
(* ParseFile                                                               *)
(***************************************************************************)
\* no caller of ParseFile other than the direct one is running
CallersIdle ==
    /\ cfgPc = "idle"
    /\ cfgCanOpen = FALSE
    /\ cfgFile = <<>>
    /\ cfgLineNum = 0
    /\ config = ZeroServerConfig
    /\ cfgPtr = "nil"
    /\ cfgErr = <<>>
    /\ flags = DefaultFlags
    /\ stdout = <<>>
    /\ stderr = <<>>
    /\ exitCode = <<>>
    /\ fmtPc = "idle"
    /\ output = <<>>

Init ==
    /\ pc = "open"
    /\ version \in {Version1, Version2, Version3}
    /\ canOpen \in BOOLEAN
    /\ file \in IF canOpen THEN SeqsUpTo(InputLines(version), MaxLines)
                           ELSE {<<>>}
    /\ handle = "none"
    /\ statusPtr = "nil"
    /\ status = EmptyStatus
    /\ parseErrors = <<>>
    /\ lineNum = 0
    /\ scanErr = FALSE
    /\ instance = 0
    /\ first = <<>>
    /\ CallersIdle

\* os.Open fails: `return nil, []error{fmt.Errorf("failed to open file")}`
OpenFail ==
    /\ pc = "open"
    /\ ~canOpen
    /\ pc' = "returned"
    /\ statusPtr' = "nil"
    /\ parseErrors' = <<WrappedError("open")>>
    /\ UNCHANGED <<version, canOpen, file, handle, status, lineNum, scanErr,
                   instance>>
    /\ UNCHANGED outerVars

\* variant of OpenOk: the Status is one long-lived structure that every
\* call appends to, instead of a structure allocated by the call
OpenOkSharedStatus ==
    /\ pc = "open"
    /\ canOpen
    /\ pc' = "scan"
    /\ handle' = "open"
    /\ statusPtr' = "ptr"
    /\ status' = status
    /\ instance' = IF instance = 0 THEN 1 ELSE instance
    /\ parseErrors' = <<>>
    /\ lineNum' = 0
    /\ scanErr' = FALSE
    /\ UNCHANGED <<version, canOpen, file>>
    /\ UNCHANGED outerVars

\* os.Open succeeds; `defer file.Close()`; the empty Status is allocated
OpenOk ==
    /\ pc = "open"
    /\ canOpen
    /\ pc' = "scan"
    /\ handle' = "open"
    /\ statusPtr' = "ptr"
    /\ status' = EmptyStatus
    /\ instance' = instance + 1
    /\ parseErrors' = <<>>
    /\ lineNum' = 0
    /\ scanErr' = FALSE
    /\ UNCHANGED <<version, canOpen, file>>
    /\ UNCHANGED outerVars

\* variant of ScanLine: the scan returns at the first decode error
ScanLineHalting ==
    /\ pc = "scan"
    /\ lineNum < Len(file)
    /\ lineNum' = lineNum + 1
    /\ LET line == TrimSpace(file[lineNum + 1])
           r == IF line = <<>> THEN Outcome(status, <<>>)
                ELSE parseLine(line, status, lineNum + 1, version,
                               delimiterOf(version))
       IN  /\ status' = r.status
           /\ parseErrors' = parseErrors \o r.err
           /\ pc' = IF r.err # <<>> THEN "returned" ELSE pc
           /\ handle' = IF r.err # <<>> THEN "closed" ELSE handle
    /\ UNCHANGED <<version, canOpen, file, statusPtr, scanErr, instance>>
    /\ UNCHANGED outerVars

\* variant of ScanLine: a line that is empty after trimming is dispatched
\* like any other
ScanLineDispatchBlank ==
    /\ pc = "scan"
    /\ lineNum < Len(file)
    /\ lineNum' = lineNum + 1
    /\ LET line == TrimSpace(file[lineNum + 1])
           r == parseLine(line, status, lineNum + 1, version,
                          delimiterOf(version))
       IN  /\ status' = r.status
           /\ parseErrors' = IF r.err # <<>>
                             THEN parseErrors \o r.err
                             ELSE parseErrors
    /\ UNCHANGED <<pc, version, canOpen, file, handle, statusPtr, scanErr,
                   instance>>
    /\ UNCHANGED outerVars

\* one iteration of `for scanner.Scan()`: the next line is read, trimmed,
\* skipped when blank and dispatched otherwise
ScanLine ==
    /\ pc = "scan"
    /\ lineNum < Len(file)
    /\ lineNum' = lineNum + 1
    /\ LET line == TrimSpace(file[lineNum + 1])
       IN  IF line = <<>>
           THEN UNCHANGED <<status, parseErrors>>
           ELSE LET r == parseLine(line, status, lineNum + 1, version,
                                   delimiterOf(version))
                IN  /\ status' = r.status
                    /\ parseErrors' = IF r.err # <<>>
                                      THEN parseErrors \o r.err
                                      ELSE parseErrors
    /\ UNCHANGED <<pc, version, canOpen, file, handle, statusPtr, scanErr,
                   instance>>
    /\ UNCHANGED outerVars

\* scanner.Scan() returns false at end of file, scanner.Err() is nil;
\* `return status, parseErrors` runs the deferred file.Close()
ScanEOF ==
    /\ pc = "scan"
    /\ lineNum = Len(file)
    /\ pc' = "returned"
    /\ handle' = "closed"
    /\ UNCHANGED <<version, canOpen, file, statusPtr, status, parseErrors,
                   lineNum, scanErr, instance>>
    /\ UNCHANGED outerVars

\* variant of ScanReadError: a read failure discards the model
ScanReadErrorNilModel ==
    /\ pc = "scan"
    /\ scanErr' = TRUE
    /\ parseErrors' = <<WrappedError("read")>>
    /\ statusPtr' = "nil"
    /\ pc' = "returned"
    /\ handle' = "closed"
    /\ UNCHANGED <<version, canOpen, file, status, lineNum, instance>>
    /\ UNCHANGED outerVars

\* variant of ScanReadError: the read error is put in front of the list
ScanReadErrorInFront ==
    /\ pc = "scan"
    /\ scanErr' = TRUE
    /\ parseErrors' = <<WrappedError("read")>> \o parseErrors
    /\ pc' = "returned"
    /\ handle' = "closed"
    /\ UNCHANGED <<version, canOpen, file, statusPtr, status, lineNum,
                   instance>>
    /\ UNCHANGED outerVars

\* variant of ScanReadError: the return on a read failure does not close
\* the file
ScanReadErrorLeak ==
    /\ pc = "scan"
    /\ scanErr' = TRUE
    /\ parseErrors' = Append(parseErrors, WrappedError("read"))
    /\ pc' = "returned"
    /\ UNCHANGED <<version, canOpen, file, handle, statusPtr, status, lineNum,
                   instance>>
    /\ UNCHANGED outerVars

\* scanner.Scan() returns false on a read failure, scanner.Err() is non-nil:
\* the read error is appended; the deferred file.Close() runs on return
ScanReadError ==
    /\ pc = "scan"
    /\ scanErr' = TRUE
    /\ parseErrors' = Append(parseErrors, WrappedError("read"))
    /\ pc' = "returned"
    /\ handle' = "closed"
    /\ UNCHANGED <<version, canOpen, file, statusPtr, status, lineNum,
                   instance>>
    /\ UNCHANGED outerVars

Next ==
    \/ OpenFail
    \/ OpenOk
    \/ ScanLine
    \/ ScanEOF
    \/ ScanReadError

Spec == Init /\ [][Next]_vars

(***************************************************************************)
(* Callers that call ParseFile a second time (as the benchmarks and the    *)
(* tests of the package do)                                                *)
(***************************************************************************)
\* what the call that has just returned handed to its caller
Returned ==
    [version |-> version, file |-> file, statusPtr |-> statusPtr,
     status |-> status, instance |-> instance,
     parseErrors |-> parseErrors, scanErr |-> scanErr]

\* the caller keeps the result and calls ParseFile again, on the same
\* unchanged file with the same version
CallAgain ==
    /\ pc = "returned"
    /\ first = <<>>
    /\ first' = <<Returned>>
    /\ pc' = "open"
    /\ UNCHANGED <<version, canOpen, file, handle, statusPtr, status,
                   parseErrors, lineNum, scanErr, instance>>
    /\ UNCHANGED callerVars

\* a line with every comma replaced by a tab
CommasToTabs(line) ==
    [j \in 1..Len(line) |-> IF line[j] = COMMA THEN TAB ELSE line[j]]

\* the caller keeps the result of a version-2 parse and calls ParseFile
\* with version 3 on the same file written with tabs for commas
CallAsVersion3 ==
    /\ pc = "returned"
    /\ first = <<>>
    /\ version = Version2
    /\ first' = <<Returned>>
    /\ file' = [i \in 1..Len(file) |-> CommasToTabs(file[i])]
    /\ version' = Version3
    /\ pc' = "open"
    /\ UNCHANGED <<canOpen, handle, statusPtr, status, parseErrors, lineNum,
                   scanErr, instance>>
    /\ UNCHANGED callerVars

\* the file without the lines that are empty after trimming
WithoutBlanks(f) == SelectSeq(f, LAMBDA l : TrimSpace(l) # <<>>)

\* a second call on the same file with its blank lines removed (the
\* content of TestParseFileWithEmptyLines against that of TestParseFileV3)
CallWithoutBlanks ==
    /\ pc = "returned"
    /\ first = <<>>
    /\ statusPtr = "ptr"
    /\ WithoutBlanks(file) # file
    /\ first' = <<Returned>>
    /\ file' = WithoutBlanks(file)
    /\ pc' = "open"
    /\ UNCHANGED <<version, canOpen, handle, statusPtr, status, parseErrors,
                   lineNum, scanErr, instance>>
    /\ UNCHANGED callerVars

NextBlank ==
    \/ OpenFail
    \/ OpenOk
    \/ ScanLine
    \/ ScanEOF
    \/ ScanReadError
    \/ CallWithoutBlanks

SpecBlank == Init /\ [][NextBlank]_vars

NextTwice ==
    \/ OpenFail
    \/ OpenOk
    \/ ScanLine
    \/ ScanEOF
    \/ ScanReadError
    \/ CallAgain
    \/ CallAsVersion3

SpecTwice == Init /\ [][NextTwice]_vars

(***************************************************************************)
(* ParseConfig (package config)                                            *)
(***************************************************************************)
MaxConfigLines == 3

DirLocal == <<"l", "o", "c", "a", "l">>
DirPort == <<"p", "o", "r", "t">>
DirProto == <<"p", "r", "o", "t", "o">>
DirDev == <<"d", "e", "v">>
DirStatus == <<"s", "t", "a", "t", "u", "s">>
DirStatusVersion == <<"s", "t", "a", "t", "u", "s", "-", "v", "e", "r", "s", "i", "o", "n">>
DEFAULT_PORT == <<"1", "1", "9", "4">>

\* strings.Fields: the maximal runs of non-space characters
RECURSIVE Fields(_)
Fields(s) ==
    LET t == TrimLeft(s)
    IN  IF t = <<>> THEN <<>>
        ELSE LET stops == {i \in 1..Len(t) : IsSpace(t[i])}
                 n == IF stops = {} THEN Len(t) + 1
                      ELSE CHOOSE i \in stops : \A j \in stops : i <= j
             IN  <<SubSeq(t, 1, n - 1)>> \o Fields(SubSeq(t, n, Len(t)))

\* strings.HasPrefix for a one-character prefix
HasPrefix(s, c) == s # <<>> /\ s[1] = c

\* strings.LastIndex for a one-character separator; 0 when absent
LastIndex(s, c) ==
    LET at == {i \in 1..Len(s) : s[i] = c}
    IN  IF at = {} THEN 0 ELSE CHOOSE i \in at : \A j \in at : j <= i

RECURSIVE TrimSlashes(_)
TrimSlashes(s) ==
    IF s # <<>> /\ s[Len(s)] = "/" THEN TrimSlashes(SubSeq(s, 1, Len(s) - 1))
    ELSE s

\* filepath.Base
Base(path) ==
    IF path = <<>> THEN <<".">>
    ELSE LET t == TrimSlashes(path)
         IN  IF t = <<>> THEN <<"/">>
             ELSE SubSeq(t, LastIndex(t, "/") + 1, Len(t))

\* filepath.Ext of a path without slashes
Ext(name) ==
    IF LastIndex(name, ".") = 0 THEN <<>>
    ELSE SubSeq(name, LastIndex(name, "."), Len(name))

getServerID(statusPath) ==
    LET basename == Base(statusPath)
    IN  SubSeq(basename, 1, Len(basename) - Len(Ext(basename)))

\* strconv.Atoi
Atoi(s) == ParseInt(s)

\* `config := &ServerConfig{Port: "1194", StatusVersion: 3}`
NewServerConfig ==
    [ZeroServerConfig EXCEPT !.Port = DEFAULT_PORT, !.StatusVersion = 3]

\* case "status-version" of ParseConfig
statusVersionDirective(cfg, tokens) ==
    IF Len(tokens) >= 2
    THEN IF Atoi(tokens[2]).err = "nil" /\ Atoi(tokens[2]).val >= 1
            /\ Atoi(tokens[2]).val <= 3
         THEN [cfg EXCEPT !.StatusVersion = Atoi(tokens[2]).val]
         ELSE cfg
    ELSE cfg

\* the body of the scan loop of ParseConfig for one line of the file
configLine(cfg, text) ==
    LET line == TrimSpace(text)
        tokens == Fields(line)
    IN  IF line = <<>> \/ HasPrefix(line, "#") \/ HasPrefix(line, ";")
        THEN cfg
        ELSE IF Len(tokens) = 0 THEN cfg
        ELSE IF tokens[1] = DirLocal
             THEN IF Len(tokens) >= 2 THEN [cfg EXCEPT !.Local = tokens[2]]
                  ELSE cfg
        ELSE IF tokens[1] = DirPort
             THEN IF Len(tokens) >= 2 THEN [cfg EXCEPT !.Port = tokens[2]]
                  ELSE cfg
        ELSE IF tokens[1] = DirProto
             THEN IF Len(tokens) >= 2 THEN [cfg EXCEPT !.Proto = tokens[2]]
                  ELSE cfg
        ELSE IF tokens[1] = DirDev
             THEN IF Len(tokens) >= 2 THEN [cfg EXCEPT !.Dev = tokens[2]]
                  ELSE cfg
        ELSE IF tokens[1] = DirStatus
             THEN IF Len(tokens) >= 2
                  THEN [cfg EXCEPT !.StatusFile = tokens[2],
                                   !.ID = getServerID(tokens[2])]
                  ELSE cfg
        ELSE IF tokens[1] = DirStatusVersion
             THEN statusVersionDirective(cfg, tokens)
        ELSE cfg

\* Inputs: the lines of the config files ParseConfig is run on
pLog == <<"/", "d", "/", "s", ".", "l">>
pBare == <<"s", "2">>

ConfigLines ==
    { Join(<<DirStatus, pLog>>, SPACE),
      Join(<<DirStatus, pBare, <<"1", "0">>>>, TAB),
      DirStatus,
      Join(<<DirStatusVersion, <<"1">>>>, SPACE),
      Join(<<DirStatusVersion, <<"2">>>>, SPACE),
      Join(<<DirStatusVersion, <<"3">>>>, SPACE),
      Join(<<DirStatusVersion, <<"9">>>>, SPACE),
      Join(<<DirStatusVersion, <<"0">>>>, SPACE),
      Join(<<DirStatusVersion, <<"-", "1">>>>, SPACE),
      Join(<<DirStatusVersion, <<"x">>>>, SPACE),
      DirStatusVersion,
      Join(<<DirPort, <<"5">>>>, SPACE),
      Join(<<DirProto, <<"u">>>>, SPACE),
      Join(<<DirLocal, <<"h">>>>, SPACE),
      Join(<<DirDev, <<"t">>>>, SPACE),
      <<"#", "c">>,
      <<SPACE>> }

InitConfig ==
    /\ pc = "idle"
    /\ version = Version3
    /\ canOpen = FALSE
    /\ file = <<>>
    /\ handle = "none"
    /\ statusPtr = "nil"
    /\ status = EmptyStatus
    /\ parseErrors = <<>>
    /\ lineNum = 0
    /\ scanErr = FALSE
    /\ instance = 0
    /\ first = <<>>
    /\ cfgPc = "open"
    /\ cfgCanOpen \in BOOLEAN
    /\ cfgFile \in IF cfgCanOpen THEN SeqsUpTo(ConfigLines, MaxConfigLines)
                                 ELSE {<<>>}
    /\ cfgLineNum = 0
    /\ config = ZeroServerConfig
    /\ cfgPtr = "nil"
    /\ cfgErr = <<>>
    /\ flags = DefaultFlags
    /\ stdout = <<>>
    /\ stderr = <<>>
    /\ exitCode = <<>>
    /\ fmtPc = "idle"
    /\ output = <<>>

\* os.Open fails: `return nil, fmt.Errorf("failed to open config file")`
ConfigOpenFail ==
    /\ cfgPc = "open"
    /\ ~cfgCanOpen
    /\ cfgPc' = "returned"
    /\ cfgPtr' = "nil"
    /\ cfgErr' = <<"failed to open config file">>
    /\ UNCHANGED <<cfgCanOpen, cfgFile, cfgLineNum, config>>
    /\ UNCHANGED <<parseVars, first, cliVars, fmtVars>>

ConfigOpenOk ==
    /\ cfgPc = "open"
    /\ cfgCanOpen
    /\ cfgPc' = "scan"
    /\ config' = NewServerConfig
    /\ cfgLineNum' = 0
    /\ UNCHANGED <<cfgCanOpen, cfgFile, cfgPtr, cfgErr>>
    /\ UNCHANGED <<parseVars, first, cliVars, fmtVars>>

\* one iteration of `for scanner.Scan()`
ConfigScanLine ==
    /\ cfgPc = "scan"
    /\ cfgLineNum < Len(cfgFile)
    /\ cfgLineNum' = cfgLineNum + 1
    /\ config' = configLine(config, cfgFile[cfgLineNum + 1])
    /\ UNCHANGED <<cfgPc, cfgCanOpen, cfgFile, cfgPtr, cfgErr>>
    /\ UNCHANGED <<parseVars, first, cliVars, fmtVars>>

\* the scan ends at the end of the file: the status directive is required
ConfigScanEOF ==
    /\ cfgPc = "scan"
    /\ cfgLineNum = Len(cfgFile)
    /\ cfgPc' = "returned"
    /\ IF config.StatusFile = <<>>
       THEN /\ cfgPtr' = "nil"
            /\ cfgErr' = <<"no 'status' directive found in config file">>
       ELSE /\ cfgPtr' = "ptr"
            /\ cfgErr' = <<>>
    /\ UNCHANGED <<cfgCanOpen, cfgFile, cfgLineNum, config>>
    /\ UNCHANGED <<parseVars, first, cliVars, fmtVars>>

\* the scan ends on a read failure: `return nil, fmt.Errorf(...)`
ConfigScanReadError ==
    /\ cfgPc = "scan"
    /\ cfgLineNum < Len(cfgFile)
    /\ cfgPc' = "returned"
    /\ cfgPtr' = "nil"
    /\ cfgErr' = <<"error reading config file">>
    /\ UNCHANGED <<cfgCanOpen, cfgFile, cfgLineNum, config>>
    /\ UNCHANGED <<parseVars, first, cliVars, fmtVars>>

NextConfig ==
    \/ ConfigOpenFail
    \/ ConfigOpenOk
    \/ ConfigScanLine
    \/ ConfigScanEOF
    \/ ConfigScanReadError

SpecConfig == InitConfig /\ [][NextConfig]_vars

(***************************************************************************)
(* JSONFormatter (package formatter).  The JSON text is modelled by the    *)
(* value it denotes: an object is a function from the keys that are        *)
(* written to their values, an array is a sequence.  Indentation changes   *)
(* white space only and is kept beside the document.                       *)
(***************************************************************************)
\* an object with no key
NoKeys == [k \in {} |-> <<>>]

\* a key with the tag `omitempty`: written only when the value is not empty
OmitEmpty(key, value, empty) == IF value = empty THEN NoKeys ELSE key :> value

\* encoding/json on parser.ServerConfig
marshalServer(sv) ==
    ("id" :> sv.ID)
      @@ OmitEmpty("local", sv.Local, <<>>)
      @@ OmitEmpty("port", sv.Port, <<>>)
      @@ OmitEmpty("proto", sv.Proto, <<>>)
      @@ OmitEmpty("dev", sv.Dev, <<>>)

\* variant of marshalClient: username is written even when it is empty
marshalClientKeepUsername(c) ==
    ("commonName" :> c.CommonName)
      @@ ("realAddress" :> c.RealAddress)
      @@ OmitEmpty("virtualAddress", c.VirtualAddress, <<>>)
      @@ OmitEmpty("virtualIPv6Address", c.VirtualIPv6Address, <<>>)
      @@ ("bytesReceived" :> c.BytesReceived)
      @@ ("bytesSent" :> c.BytesSent)
      @@ ("connectedSince" :> c.ConnectedSince)
      @@ OmitEmpty("connectedSinceTime", c.ConnectedSinceTime, 0)
      @@ ("username" :> c.Username)
      @@ OmitEmpty("clientId", c.ClientID, 0)
      @@ OmitEmpty("peerId", c.PeerID, 0)
      @@ OmitEmpty("dataCipher", c.DataCipher, <<>>)

\* encoding/json on parser.Client
marshalClient(c) ==
    ("commonName" :> c.CommonName)
      @@ ("realAddress" :> c.RealAddress)
      @@ OmitEmpty("virtualAddress", c.VirtualAddress, <<>>)
      @@ OmitEmpty("virtualIPv6Address", c.VirtualIPv6Address, <<>>)
      @@ ("bytesReceived" :> c.BytesReceived)
      @@ ("bytesSent" :> c.BytesSent)
      @@ ("connectedSince" :> c.ConnectedSince)
      @@ OmitEmpty("connectedSinceTime", c.ConnectedSinceTime, 0)
      @@ OmitEmpty("username", c.Username, <<>>)
      @@ OmitEmpty("clientId", c.ClientID, 0)
      @@ OmitEmpty("peerId", c.PeerID, 0)
      @@ OmitEmpty("dataCipher", c.DataCipher, <<>>)

\* encoding/json on parser.Route
marshalRoute(r) ==
    [virtualAddress |-> r.VirtualAddress, commonName |-> r.CommonName,
     realAddress |-> r.RealAddress, lastRef |-> r.LastRef,
     lastRefTime |-> r.LastRefTime]

\* variant of marshalStatus: clientList is omitted when it is empty
marshalStatusOmitClients(st) ==
    OmitEmpty("server", [i \in 1..Len(st.Server) |-> marshalServer(st.Server[i])],
              <<>>)
      @@ OmitEmpty("title", st.Title, <<>>)
      @@ OmitEmpty("time", st.Time, <<>>)
      @@ OmitEmpty("clientList",
           [i \in 1..Len(st.ClientList) |-> marshalClient(st.ClientList[i])],
           <<>>)
      @@ OmitEmpty("routingTable",
           [i \in 1..Len(st.RoutingTable) |-> marshalRoute(st.RoutingTable[i])],
           <<>>)

\* encoding/json on parser.Status; the pointer Server is written as the
\* one-element sequence of its object
marshalStatus(st) ==
    OmitEmpty("server", [i \in 1..Len(st.Server) |-> marshalServer(st.Server[i])],
              <<>>)
      @@ OmitEmpty("title", st.Title, <<>>)
      @@ OmitEmpty("time", st.Time, <<>>)
      @@ ("clientList" :>
           [i \in 1..Len(st.ClientList) |-> marshalClient(st.ClientList[i])])
      @@ OmitEmpty("routingTable",
           [i \in 1..Len(st.RoutingTable) |-> marshalRoute(st.RoutingTable[i])],
           <<>>)

\* JSONFormatter.Format: the returned string (the error is always nil)
JSONFormat(indent, st) ==
    [format |-> "json", indent |-> indent, doc |-> marshalStatus(st),
     lines |-> <<>>]

(***************************************************************************)
(* OpenMetricsFormatter (package formatter).  The returned text is the     *)
(* sequence of its lines; a line is a comment ("HELP", "TYPE", "EOF") or a *)
(* sample with its metric name, its labels in order and its value.  The    *)
(* text of a label value is kept character by character, delimiting        *)
(* quotes included.                                                        *)
(***************************************************************************)
BACKSLASH == "\\"
QUOTE == "\""
NEWLINE == "\n"

\* strings.ReplaceAll for a one-character `old`
RECURSIVE ReplaceAll(_, _, _)
ReplaceAll(s, old, new) ==
    IF s = <<>> THEN <<>>
    ELSE (IF Head(s) = old THEN new ELSE <<Head(s)>>)
           \o ReplaceAll(Tail(s), old, new)

sanitizeLabelValue(value) ==
    ReplaceAll(ReplaceAll(ReplaceAll(value, BACKSLASH, <<BACKSLASH, BACKSLASH>>),
                          NEWLINE, <<BACKSLASH, "n">>),
               QUOTE, <<BACKSLASH, QUOTE>>)

\* the verb %q of fmt.Sprintf (strconv.Quote) on the model's alphabet
RECURSIVE QuoteBody(_)
QuoteBody(s) ==
    IF s = <<>> THEN <<>>
    ELSE (CASE Head(s) = QUOTE -> <<BACKSLASH, QUOTE>>
            [] Head(s) = BACKSLASH -> <<BACKSLASH, BACKSLASH>>
            [] Head(s) = NEWLINE -> <<BACKSLASH, "n">>
            [] Head(s) = TAB -> <<BACKSLASH, "t">>
            [] Head(s) = "\r" -> <<BACKSLASH, "r">>
            [] OTHER -> <<Head(s)>>)
           \o QuoteBody(Tail(s))

Quote(s) == <<QUOTE>> \o QuoteBody(s) \o <<QUOTE>>

\* fmt.Sprintf("name=%q", f.sanitizeLabelValue(value))
Label(name, value) ==
    [name |-> name, text |-> Quote(sanitizeLabelValue(value))]

buildClientLabels(client, server) ==
    <<Label("common_name", client.CommonName),
      Label("real_address", client.RealAddress),
      Label("server_id", server.ID),
      Label("virtual_address", client.VirtualAddress)>>
      \o (IF client.Username # <<>>
          THEN <<Label("username", client.Username)>> ELSE <<>>)

buildRouteLabels(route, server) ==
    <<Label("virtual_address", route.VirtualAddress),
      Label("common_name", route.CommonName),
      Label("real_address", route.RealAddress),
      Label("server_id", server.ID)>>

buildInfoLabels(st, server) ==
    <<Label("title", st.Title),
      Label("server_id", server.ID),
      Label("server_local", server.Local),
      Label("server_port", server.Port),
      Label("server_proto", server.Proto),
      Label("server_dev", server.Dev)>>
      \o (IF Len(st.Time) > 0
          THEN <<Label("updated_at", st.Time[1])>> ELSE <<>>)

HelpLine(name) == [kind |-> "HELP", name |-> name, labels |-> <<>>, value |-> 0]
TypeLine(name) == [kind |-> "TYPE", name |-> name, labels |-> <<>>, value |-> 0]
EOFLine == [kind |-> "EOF", name |-> "", labels |-> <<>>, value |-> 0]
Sample(name, labels, value) ==
    [kind |-> "sample", name |-> name, labels |-> labels, value |-> value]

BYTES_RECEIVED == "openvpn_client_bytes_received_total"
BYTES_SENT == "openvpn_client_bytes_sent_total"
DURATION == "openvpn_client_connected_duration_seconds"
CONNECTED == "openvpn_client_connected"
CLIENTS_TOTAL == "openvpn_clients_connected_total"
ROUTES_TOTAL == "openvpn_routing_entries_total"
LAST_REF == "openvpn_routing_last_ref_seconds"
STATUS_INFO == "openvpn_status_info"

\* variant of serverGauges: a gauge whose count is 0 is not written
serverGaugesOmitZero(st, server) ==
    (IF Len(st.ClientList) = 0 THEN <<>>
     ELSE <<HelpLine(CLIENTS_TOTAL), TypeLine(CLIENTS_TOTAL),
            Sample(CLIENTS_TOTAL, <<Label("server_id", server.ID)>>,
                   Len(st.ClientList))>>)
    \o (IF Len(st.RoutingTable) = 0 THEN <<>>
        ELSE <<HelpLine(ROUTES_TOTAL), TypeLine(ROUTES_TOTAL),
               Sample(ROUTES_TOTAL, <<Label("server_id", server.ID)>>,
                      Len(st.RoutingTable))>>)

\* the total of connected clients and the total of routing entries, with
\* the one label server_id
serverGauges(st, server) ==
    <<HelpLine(CLIENTS_TOTAL), TypeLine(CLIENTS_TOTAL),
      Sample(CLIENTS_TOTAL, <<Label("server_id", server.ID)>>,
             Len(st.ClientList))>>
    \o <<HelpLine(ROUTES_TOTAL), TypeLine(ROUTES_TOTAL),
         Sample(ROUTES_TOTAL, <<Label("server_id", server.ID)>>,
                Len(st.RoutingTable))>>

\* the lines OpenMetricsFormatter.Format writes, with `now` the value of
\* time.Now().Unix(); status.Server is not nil
OpenMetricsLines(st, now) ==
    LET server == st.Server[1]
        clients == st.ClientList
        routes == st.RoutingTable
    IN  <<HelpLine(BYTES_RECEIVED), TypeLine(BYTES_RECEIVED)>>
        \o [k \in 1..Len(clients) |->
              Sample(BYTES_RECEIVED, buildClientLabels(clients[k], server),
                     clients[k].BytesReceived)]
        \o <<HelpLine(BYTES_SENT), TypeLine(BYTES_SENT)>>
        \o [k \in 1..Len(clients) |->
              Sample(BYTES_SENT, buildClientLabels(clients[k], server),
                     clients[k].BytesSent)]
        \o <<HelpLine(DURATION), TypeLine(DURATION)>>
        \o [k \in 1..Len(clients) |->
              Sample(DURATION, buildClientLabels(clients[k], server),
                     now - clients[k].ConnectedSinceTime)]
        \o <<HelpLine(CONNECTED), TypeLine(CONNECTED)>>
        \o [k \in 1..Len(clients) |->
              Sample(CONNECTED, buildClientLabels(clients[k], server), 1)]
        \o serverGauges(st, server)
        \o <<HelpLine(LAST_REF), TypeLine(LAST_REF)>>
        \o [k \in 1..Len(routes) |->
              Sample(LAST_REF, buildRouteLabels(routes[k], server),
                     routes[k].LastRefTime)]
        \o <<HelpLine(STATUS_INFO), TypeLine(STATUS_INFO),
             Sample(STATUS_INFO, buildInfoLabels(st, server), 1)>>
        \o <<EOFLine>>

\* OpenMetricsFormatter.Format: the returned string (the error is always nil)
OpenMetricsFormat(st, now) ==
    [format |-> "openmetrics", indent |-> FALSE, doc |-> NoKeys,
     lines |-> OpenMetricsLines(st, now)]

(***************************************************************************)
(* Direct calls of Format on a Status built by the caller, as the tests    *)
(* of package formatter make them                                          *)
(***************************************************************************)
MaxClients == 2

\* the values time.Now().Unix() takes
Nows == {100, 200}

TestServer ==
    [ID |-> <<"t">>, Local |-> <<>>, Port |-> <<>>, Proto |-> <<>>,
     Dev |-> <<>>]

\* the clients of the Status values
FormatClients ==
    { [ZeroClient EXCEPT !.CommonName = fU, !.RealAddress = fAddr,
                         !.BytesReceived = 10, !.BytesSent = 20],
      [ZeroClient EXCEPT !.CommonName = fV, !.RealAddress = fAddr,
                         !.VirtualAddress = fW, !.ConnectedSinceTime = 9,
                         !.Username = fN],
      [ZeroClient EXCEPT !.CommonName = <<"u", QUOTE, "q">>,
                         !.RealAddress = fAddr],
      [ZeroClient EXCEPT !.CommonName = <<"a", BACKSLASH, "b">>,
                         !.ConnectedSinceTime = 9],
      [ZeroClient EXCEPT !.CommonName = <<"a", NEWLINE>>] }

FormatRoutes ==
    { [ZeroRoute EXCEPT !.VirtualAddress = fW, !.CommonName = fU,
                        !.RealAddress = fAddr, !.LastRefTime = 9] }

InitFormat ==
    /\ pc = "idle"
    /\ version = Version3
    /\ canOpen = FALSE
    /\ file = <<>>
    /\ handle = "none"
    /\ statusPtr = "ptr"
    /\ \E cl \in SeqsUpTo(FormatClients, MaxClients),
          rt \in SeqsUpTo(FormatRoutes, 1),
          tm \in {<<>>, <<fT>>},
          tt \in {<<>>, fT},
          sv \in {<<>>, <<TestServer>>} :
         status = [Server |-> sv, Title |-> tt, Time |-> tm,
                   ClientList |-> cl, RoutingTable |-> rt]
    /\ parseErrors = <<>>
    /\ lineNum = 0
    /\ scanErr = FALSE
    /\ instance = 1
    /\ first = <<>>
    /\ cfgPc = "idle"
    /\ cfgCanOpen = FALSE
    /\ cfgFile = <<>>
    /\ cfgLineNum = 0
    /\ config = ZeroServerConfig
    /\ cfgPtr = "nil"
    /\ cfgErr = <<>>
    /\ flags = DefaultFlags
    /\ stdout = <<>>
    /\ stderr = <<>>
    /\ exitCode = <<>>
    /\ fmtPc = "format"
    /\ output = <<>>

FormatJSON ==
    /\ fmtPc = "format"
    /\ \E indent \in BOOLEAN : output' = <<JSONFormat(indent, status)>>
    /\ fmtPc' = "formatted"
    /\ UNCHANGED <<parseVars, first, configVars, cliVars>>

FormatOpenMetrics ==
    /\ fmtPc = "format"
    /\ status.Server # <<>>
    /\ \E now \in Nows : output' = <<OpenMetricsFormat(status, now)>>
    /\ fmtPc' = "formatted"
    /\ UNCHANGED <<parseVars, first, configVars, cliVars>>

\* `server := *status.Server` with a nil Server: the call panics and
\* returns nothing
FormatOpenMetricsPanic ==
    /\ fmtPc = "format"
    /\ status.Server = <<>>
    /\ fmtPc' = "panicked"
    /\ UNCHANGED output
    /\ UNCHANGED <<parseVars, first, configVars, cliVars>>

NextFormat == FormatJSON \/ FormatOpenMetrics \/ FormatOpenMetricsPanic

SpecFormat == InitFormat /\ [][NextFormat]_vars

(***************************************************************************)
(* main (the command-line program).  It calls ParseConfig, then ParseFile, *)
(* then Format; os.Stdout and os.Stderr are the sequences of what has been *)
(* written to them.                                                        *)
(***************************************************************************)
Formats == {"json", "openmetrics"}

getStatusVersion(ver) ==
    IF ver = 1 THEN Version1
    ELSE IF ver = 2 THEN Version2
    ELSE Version3

\* `serverConfig = &parser.ServerConfig{ID: cfg.ID, ...}`
serverConfigOf(cfg) ==
    [ID |-> cfg.ID, Local |-> cfg.Local, Port |-> cfg.Port,
     Proto |-> cfg.Proto, Dev |-> cfg.Dev]

\* what main writes to os.Stderr: a message and, for the warning, the
\* errors it lists
Message(kind) == [kind |-> kind, errors |-> <<>>]
Warning(errs) == [kind |-> "Warning: encountered error(s)", errors |-> errs]

WarningsFor(errs) == IF Len(errs) > 0 THEN <<Warning(errs)>> ELSE <<>>

\* `fmt.Printf("openvpn-status-parser version %s\n", Version)`
VersionBanner ==
    [format |-> "version", indent |-> FALSE, doc |-> NoKeys, lines |-> <<>>]

\* f.Format(status) for the formatter the format flag selects
FormatWith(fl, st, now) ==
    IF fl.format = "json" THEN JSONFormat(fl.indent, st)
    ELSE OpenMetricsFormat(st, now)

\* Inputs: the command lines, the config files and the status files of
\* the runs of main
CLIFlags ==
    { [DefaultFlags EXCEPT !.version = TRUE, !.file = "server.conf"],
      DefaultFlags,
      [DefaultFlags EXCEPT !.file = "server.conf", !.format = "xml"],
      [DefaultFlags EXCEPT !.file = "server.conf"],
      [DefaultFlags EXCEPT !.file = "server.conf", !.indent = TRUE],
      [DefaultFlags EXCEPT !.file = "server.conf", !.format = "openmetrics"] }

CLIConfigs ==
    { <<Join(<<DirPort, <<"5">>>>, SPACE)>>,
      <<Join(<<DirStatus, pLog>>, SPACE)>>,
      <<Join(<<DirStatus, pLog>>, SPACE),
        Join(<<DirStatusVersion, <<"1">>>>, SPACE)>>,
      <<Join(<<DirStatus, pLog>>, SPACE),
        Join(<<DirStatusVersion, <<"2">>>>, SPACE)>> }

RECURSIVE configAfter(_, _)
configAfter(cfg, lines) ==
    IF lines = <<>> THEN cfg
    ELSE configAfter(configLine(cfg, Head(lines)), Tail(lines))

\* the version the directives of a config file select
VersionIn(lines) ==
    getStatusVersion(configAfter(NewServerConfig, lines).StatusVersion)

CLIFieldLists(ver) ==
    IF ver = Version1
    THEN { <<fU, fAddr, <<"1", "0">>, <<"2", "0">>, fT>>,
           <<fU, fAddr, <<"x">>, <<"8">>, fT>>,
           <<fU, fAddr, <<"7">>>> }
    ELSE { <<CLIENT_LIST, fU, fAddr, fV, <<>>, <<"7">>, <<"8">>, fT, <<"9">>,
             fN, <<"1">>, <<"2">>>>,
           <<CLIENT_LIST, fU, fAddr, fV, <<>>, <<"x">>, <<"8">>, fT, <<"9">>,
             fN, <<"1">>, <<"2">>>>,
           <<CLIENT_LIST, fU, fAddr, fV, <<>>, <<"7">>, <<"8">>, fT, <<"9">>,
             fN, <<"1">>, <<>>>>,
           <<CLIENT_LIST, fU, fAddr>>,
           <<HEADER, CLIENT_LIST, fU>>,
           <<ROUTING_TABLE, fV, fU, fAddr, fT, <<"9">>>>,
           <<TITLE, fT>> }

CLILines(ver) ==
    { Join(f, delimiterOf(ver)) : f \in CLIFieldLists(ver) } \cup {<<>>}

\* the flags and the config file let the run reach ParseFile
ReachesParseFile(fl, cfgOpens, lines) ==
    /\ ~fl.version
    /\ fl.file # ""
    /\ fl.format \in Formats
    /\ cfgOpens
    /\ configAfter(NewServerConfig, lines).StatusFile # <<>>

\* the status file is left empty in the runs that end before ParseFile
InitCLI ==
    /\ pc = "main"
    /\ flags \in CLIFlags
    /\ cfgCanOpen \in BOOLEAN
    /\ cfgFile \in IF cfgCanOpen THEN CLIConfigs ELSE {<<>>}
    /\ canOpen \in IF ReachesParseFile(flags, cfgCanOpen, cfgFile)
                   THEN BOOLEAN ELSE {FALSE}
    /\ file \in IF canOpen
                THEN SeqsUpTo(CLILines(VersionIn(cfgFile)), MaxLines)
                ELSE {<<>>}
    /\ version = Version3
    /\ handle = "none"
    /\ statusPtr = "nil"
    /\ status = EmptyStatus
    /\ parseErrors = <<>>
    /\ lineNum = 0
    /\ scanErr = FALSE
    /\ instance = 0
    /\ first = <<>>
    /\ cfgPc = "idle"
    /\ cfgLineNum = 0
    /\ config = ZeroServerConfig
    /\ cfgPtr = "nil"
    /\ cfgErr = <<>>
    /\ stdout = <<>>
    /\ stderr = <<>>
    /\ exitCode = <<>>
    /\ fmtPc = "idle"
    /\ output = <<>>

\* `if *version { fmt.Printf(...); os.Exit(0) }`
MainShowVersion ==
    /\ pc = "main"
    /\ flags.version
    /\ stdout' = Append(stdout, VersionBanner)
    /\ exitCode' = <<0>>
    /\ pc' = "exited"
    /\ UNCHANGED <<version, canOpen, file, handle, statusPtr, status,
                   parseErrors, lineNum, scanErr, instance>>
    /\ UNCHANGED <<first, configVars, flags, stderr, fmtVars>>

\* `if *filePath == "" { ...; os.Exit(1) }`
MainNoFile ==
    /\ pc = "main"
    /\ ~flags.version
    /\ flags.file = ""
    /\ stderr' = stderr \o <<Message("Error: -file flag is required"),
                             Message("usage")>>
    /\ exitCode' = <<1>>
    /\ pc' = "exited"
    /\ UNCHANGED <<version, canOpen, file, handle, statusPtr, status,
                   parseErrors, lineNum, scanErr, instance>>
    /\ UNCHANGED <<first, configVars, flags, stdout, fmtVars>>

\* `if *format != "json" && *format != "openmetrics" { ...; os.Exit(1) }`
MainBadFormat ==
    /\ pc = "main"
    /\ ~flags.version
    /\ flags.file # ""
    /\ flags.format \notin Formats
    /\ stderr' = stderr \o <<Message("Error: -format must be 'json' or 'openmetrics'"),
                             Message("usage")>>
    /\ exitCode' = <<1>>
    /\ pc' = "exited"
    /\ UNCHANGED <<version, canOpen, file, handle, statusPtr, status,
                   parseErrors, lineNum, scanErr, instance>>
    /\ UNCHANGED <<first, configVars, flags, stdout, fmtVars>>

\* `cfg, err := config.ParseConfig(*filePath)`: the call
MainCallParseConfig ==
    /\ pc = "main"
    /\ ~flags.version
    /\ flags.file # ""
    /\ flags.format \in Formats
    /\ pc' = "config"
    /\ cfgPc' = "open"
    /\ UNCHANGED <<version, canOpen, file, handle, statusPtr, status,
                   parseErrors, lineNum, scanErr, instance>>
    /\ UNCHANGED <<cfgCanOpen, cfgFile, cfgLineNum, config, cfgPtr, cfgErr>>
    /\ UNCHANGED <<first, cliVars, fmtVars>>

\* ParseConfig returned an error: `os.Exit(1)`
MainConfigError ==
    /\ pc = "config"
    /\ cfgPc = "returned"
    /\ cfgErr # <<>>
    /\ stderr' = Append(stderr, Message("Error: failed to parse config file"))
    /\ exitCode' = <<1>>
    /\ pc' = "exited"
    /\ UNCHANGED <<version, canOpen, file, handle, statusPtr, status,
                   parseErrors, lineNum, scanErr, instance>>
    /\ UNCHANGED <<first, configVars, flags, stdout, fmtVars>>

\* ParseConfig returned a configuration: the call of
\* `parser.ParseFile(statusFilePath, statusVer)`
MainCallParseFile ==
    /\ pc = "config"
    /\ cfgPc = "returned"
    /\ cfgErr = <<>>
    /\ version' = getStatusVersion(config.StatusVersion)
    /\ stderr' = Append(stderr, Message("Config file parsed"))
    /\ pc' = "open"
    /\ UNCHANGED <<canOpen, file, handle, statusPtr, status, parseErrors,
                   lineNum, scanErr, instance>>
    /\ UNCHANGED <<first, configVars, flags, stdout, exitCode, fmtVars>>

\* ParseFile returned a nil status: the errors are reported, `os.Exit(1)`
MainStatusNil ==
    /\ pc = "returned"
    /\ cfgPc = "returned"
    /\ exitCode = <<>>
    /\ statusPtr = "nil"
    /\ stderr' = stderr \o WarningsFor(parseErrors)
                        \o <<Message("Error: failed to parse status file")>>
    /\ exitCode' = <<1>>
    /\ pc' = "exited"
    /\ UNCHANGED <<version, canOpen, file, handle, statusPtr, status,
                   parseErrors, lineNum, scanErr, instance>>
    /\ UNCHANGED <<first, configVars, flags, stdout, fmtVars>>

\* variant of MainOutput: with parse errors the run exits before the
\* output is written
MainOutputExitFirst ==
    /\ pc = "returned"
    /\ cfgPc = "returned"
    /\ exitCode = <<>>
    /\ statusPtr = "ptr"
    /\ stderr' = stderr \o WarningsFor(parseErrors)
    /\ status' = [status EXCEPT !.Server = <<serverConfigOf(config)>>]
    /\ \E now \in Nows :
         stdout' = IF Len(parseErrors) > 0 THEN stdout
                   ELSE Append(stdout, FormatWith(flags, status', now))
    /\ exitCode' = IF Len(parseErrors) > 0 THEN <<2>> ELSE <<0>>
    /\ pc' = "exited"
    /\ UNCHANGED <<version, canOpen, file, handle, statusPtr, parseErrors,
                   lineNum, scanErr, instance>>
    /\ UNCHANGED <<first, configVars, flags, fmtVars>>

\* variant of MainOutput: the document is formatted before the server
\* configuration is attached (the metrics formatter then panics)
MainOutputFormatFirst ==
    /\ pc = "returned"
    /\ cfgPc = "returned"
    /\ exitCode = <<>>
    /\ statusPtr = "ptr"
    /\ stderr' = stderr \o WarningsFor(parseErrors)
    /\ stdout' = IF flags.format = "json"
                 THEN Append(stdout, JSONFormat(flags.indent, status))
                 ELSE stdout
    /\ status' = [status EXCEPT !.Server = <<serverConfigOf(config)>>]
    /\ exitCode' = IF flags.format # "json" THEN <<2>>
                   ELSE IF Len(parseErrors) > 0 THEN <<2>> ELSE <<0>>
    /\ pc' = "exited"
    /\ UNCHANGED <<version, canOpen, file, handle, statusPtr, parseErrors,
                   lineNum, scanErr, instance>>
    /\ UNCHANGED <<first, configVars, flags, fmtVars>>

\* variant of MainOutput: the warning is written to os.Stdout
MainOutputWarnOnStdout ==
    /\ pc = "returned"
    /\ cfgPc = "returned"
    /\ exitCode = <<>>
    /\ statusPtr = "ptr"
    /\ stderr' = stderr
    /\ status' = [status EXCEPT !.Server = <<serverConfigOf(config)>>]
    /\ \E now \in Nows :
         stdout' = stdout
                     \o [i \in 1..Len(WarningsFor(parseErrors)) |->
                           [format |-> "text", indent |-> FALSE,
                            doc |-> NoKeys, lines |-> <<>>]]
                     \o <<FormatWith(flags, status', now)>>
    /\ exitCode' = IF Len(parseErrors) > 0 THEN <<2>> ELSE <<0>>
    /\ pc' = "exited"
    /\ UNCHANGED <<version, canOpen, file, handle, statusPtr, parseErrors,
                   lineNum, scanErr, instance>>
    /\ UNCHANGED <<first, configVars, flags, fmtVars>>

\* ParseFile returned a status: the errors are reported, the server
\* configuration is attached, the output is formatted and written, and
\* the exit code is 2 if there were errors (Format never returns an error)
MainOutput ==
    /\ pc = "returned"
    /\ cfgPc = "returned"
    /\ exitCode = <<>>
    /\ statusPtr = "ptr"
    /\ stderr' = stderr \o WarningsFor(parseErrors)
    /\ status' = [status EXCEPT !.Server = <<serverConfigOf(config)>>]
    /\ \E now \in Nows :
         stdout' = Append(stdout, FormatWith(flags, status', now))
    /\ exitCode' = IF Len(parseErrors) > 0 THEN <<2>> ELSE <<0>>
    /\ pc' = "exited"
    /\ UNCHANGED <<version, canOpen, file, handle, statusPtr, parseErrors,
                   lineNum, scanErr, instance>>
    /\ UNCHANGED <<first, configVars, flags, fmtVars>>

NextCLI ==
    \/ MainShowVersion
    \/ MainNoFile
    \/ MainBadFormat
    \/ MainCallParseConfig
    \/ ConfigOpenFail
    \/ ConfigOpenOk
    \/ ConfigScanLine
    \/ ConfigScanEOF
    \/ ConfigScanReadError
    \/ MainConfigError
    \/ MainCallParseFile
    \/ OpenFail
    \/ OpenOk
    \/ ScanLine
    \/ ScanEOF
    \/ ScanReadError
    \/ MainStatusNil
    \/ MainOutput

SpecCLI == InitCLI /\ [][NextCLI]_vars

(***************************************************************************)
(* Vocabulary of the properties: the lines of the file as the              *)
(* specification describes them (section 4.1, 4.2).                        *)
(***************************************************************************)
\* comma for versions 1-2, horizontal tab for version 3
DelimiterFor(ver) == IF ver \in {1, 2} THEN "," ELSE "\t"

\* line i of the file, whitespace-trimmed, and its delimited fields
TrimmedLine(i) == TrimSpace(file[i])
IsBlank(i) == TrimmedLine(i) = <<>>
LineFields(i) == Split(TrimmedLine(i), DelimiterFor(version))
NumFields(i) == Len(LineFields(i))

\* the record type of line i: version 1 has client records only,
\* versions 2 and 3 name the type in the leading tag
RecordType(i) ==
    IF version = 1 THEN "CLIENT_V1"
    ELSE LET tag == LineFields(i)[1]
         IN  CASE tag = TITLE -> "TITLE"
               [] tag = TIME -> "TIME"
               [] tag = CLIENT_LIST -> "CLIENT_LIST"
               [] tag = ROUTING_TABLE -> "ROUTING_TABLE"
               [] OTHER -> "IGNORED"

FloorClientV1 == 5
FloorClientList == 12
FloorRoutingTable == 6
FloorTitle == 2
FloorTime == 2

\* the field-count floor of a record type (section 4.2); none for ignored tags
Floor(type) ==
    CASE type = "CLIENT_V1" -> FloorClientV1
      [] type = "CLIENT_LIST" -> FloorClientList
      [] type = "ROUTING_TABLE" -> FloorRoutingTable
      [] type = "TITLE" -> FloorTitle
      [] type = "TIME" -> FloorTime
      [] OTHER -> 0

BelowFloor(i) == ~IsBlank(i) /\ NumFields(i) < Floor(RecordType(i))
MeetsFloor(i) == ~IsBlank(i) /\ NumFields(i) >= Floor(RecordType(i))
IsClientLine(i) == ~IsBlank(i) /\ RecordType(i) \in {"CLIENT_V1", "CLIENT_LIST"}
IsRouteLine(i) == ~IsBlank(i) /\ RecordType(i) = "ROUTING_TABLE"

\* a step of the scan that consumes line lineNum + 1
ScanStep == pc = "scan" /\ lineNum' = lineNum + 1
\* the state right after line lineNum was consumed
JustScanned == pc = "scan" /\ lineNum >= 1

\* the last element of a non-empty sequence
Last(s) == s[Len(s)]

\* the step appended exactly one error, for the line it consumed
OneErrorAppended ==
    /\ Len(parseErrors') = Len(parseErrors) + 1
    /\ SubSeq(parseErrors', 1, Len(parseErrors)) = parseErrors
    /\ Last(parseErrors').Line = lineNum + 1
NoErrorAppended == parseErrors' = parseErrors

\* the decoder error of line i dispatched on its own
DecoderError(i) ==
    IF IsBlank(i) THEN <<>>
    ELSE parseLine(TrimmedLine(i), EmptyStatus, i, version,
                   DelimiterFor(version)).err

RECURSIVE DecoderErrorsUpTo(_)
DecoderErrorsUpTo(k) ==
    IF k = 0 THEN <<>> ELSE DecoderErrorsUpTo(k - 1) \o DecoderError(k)

\* the error list without the trailing read error
DecodeErrors ==
    IF scanErr THEN SubSeq(parseErrors, 1, Len(parseErrors) - 1)
    ELSE parseErrors

(***************************************************************************)
(* C1: ParseFile never halts the scan on a decode error.  When it returns  *)
(* without a read failure every line of the file has been scanned; at any  *)
(* point of the scan each client or route line that meets its floor has    *)
(* appended its record, whatever lines failed before it, and the error     *)
(* list is the decoder errors of the scanned lines in file order.          *)
(***************************************************************************)
C1_ScanNeverHalts ==
    statusPtr = "ptr" =>
      /\ (pc = "returned" /\ ~scanErr) => lineNum = Len(file)
      /\ Len(status.ClientList) =
           Cardinality({i \in 1..lineNum : IsClientLine(i) /\ MeetsFloor(i)})
      /\ Len(status.RoutingTable) =
           Cardinality({i \in 1..lineNum : IsRouteLine(i) /\ MeetsFloor(i)})
      /\ DecodeErrors = DecoderErrorsUpTo(lineNum)

\* a well-formed client line was appended after a line that failed
C1_Witness ==
    /\ pc = "returned" /\ ~scanErr /\ lineNum = 2
    /\ Len(parseErrors) = 1 /\ parseErrors[1].Line = 1
    /\ BelowFloor(1)
    /\ IsClientLine(2) /\ MeetsFloor(2) /\ Len(status.ClientList) = 1

(***************************************************************************)
(* C2: ParseFile returns a nil model if and only if the file cannot be     *)
(* opened, and then the error list holds exactly one error; after a clean  *)
(* parse, decode errors or a read failure the model is non-nil.            *)
(***************************************************************************)
C2_NilModelIffOpenFails ==
    pc = "returned" =>
      /\ (statusPtr = "nil") <=> ~canOpen
      /\ statusPtr = "nil" => Len(parseErrors) = 1

C2_Witness ==
    pc = "returned" /\ ~canOpen /\ statusPtr = "nil" /\ Len(parseErrors) = 1

(***************************************************************************)
(* C3: a line with fewer fields than the floor of its record type appends  *)
(* exactly one error, for that line, and leaves the model unchanged; for a *)
(* version-2/3 CLIENT_LIST line the error's field name is CLIENT_LIST.     *)
(***************************************************************************)
C3_BelowFloorRejected ==
    [][(ScanStep /\ BelowFloor(lineNum + 1)) =>
         /\ status' = status
         /\ OneErrorAppended
         /\ RecordType(lineNum + 1) = "CLIENT_LIST" =>
              Last(parseErrors').Field = "CLIENT_LIST"]_vars

\* a version-3 CLIENT_LIST line below its floor has just been rejected
C3_Witness ==
    /\ JustScanned /\ version = 3
    /\ BelowFloor(lineNum) /\ RecordType(lineNum) = "CLIENT_LIST"
    /\ status.ClientList = <<>>
    /\ Len(parseErrors) >= 1 /\ Last(parseErrors).Field = "CLIENT_LIST"

(***************************************************************************)
(* Vocabulary of the properties: the layouts of the record lines           *)
(* (section 4.2) and the record a line appends.                            *)
(***************************************************************************)
IsRecordLine(i) == IsClientLine(i) \/ IsRouteLine(i)

\* the numeric sub-fields of a record type: error field name and 0-based
\* position in the line
NumericLayout(type) ==
    CASE type = "CLIENT_V1" ->
           <<[name |-> "bytesReceived", idx |-> 2],
             [name |-> "bytesSent", idx |-> 3]>>
      [] type = "CLIENT_LIST" ->
           <<[name |-> "bytesReceived", idx |-> 5],
             [name |-> "bytesSent", idx |-> 6],
             [name |-> "connectedSinceTime", idx |-> 8],
             [name |-> "clientId", idx |-> 10],
             [name |-> "peerId", idx |-> 11]>>
      [] type = "ROUTING_TABLE" ->
           <<[name |-> "lastRefTime", idx |-> 5]>>
      [] OTHER -> <<>>

\* the numeric sub-fields of line i and the text of the k-th of them
Numerics(i) == NumericLayout(RecordType(i))
NumText(i, k) == LineFields(i)[Numerics(i)[k].idx + 1]
NumName(i, k) == Numerics(i)[k].name

\* the value a record holds for a numeric sub-field
RecValue(rec, name) ==
    CASE name = "bytesReceived" -> rec.BytesReceived
      [] name = "bytesSent" -> rec.BytesSent
      [] name = "connectedSinceTime" -> rec.ConnectedSinceTime
      [] name = "clientId" -> rec.ClientID
      [] name = "peerId" -> rec.PeerID
      [] name = "lastRefTime" -> rec.LastRefTime

\* a decimal integer literal: an optional sign and one or more digits
IsDecimal(s) ==
    LET body == IF s # <<>> /\ Head(s) \in {"+", "-"} THEN Tail(s) ELSE s
    IN  body # <<>> /\ \A j \in 1..Len(body) : body[j] \in Digits

\* a non-empty text that is not a number
NonNumeric(s) == s # <<>> /\ ~IsDecimal(s)
\* a non-empty text that is not a 64-bit integer (non-numeric or too large)
Malformed(s) == s # <<>> /\ ParseInt(s).err # "nil"
\* the integer a well-formed text denotes
IntValue(s) == ParseInt(s).val

\* the positions (in the layout) of the malformed numeric sub-fields of line i
MalformedAt(i) == {k \in 1..Len(Numerics(i)) : Malformed(NumText(i, k))}
\* the leftmost of them
FirstMalformed(i) ==
    CHOOSE k \in MalformedAt(i) : \A m \in MalformedAt(i) : k <= m

\* error e cites numeric sub-field k of line i: field name, line, raw value
Cites(e, i, k) ==
    e.Line = i /\ e.Field = NumName(i, k) /\ e.Value = NumText(i, k)

\* the step appended exactly one record (a client for a client line, a
\* route for a route line) and changed nothing else of the model
RecordAppended ==
    IF IsRouteLine(lineNum + 1)
    THEN /\ Len(status'.RoutingTable) = Len(status.RoutingTable) + 1
         /\ status = [status' EXCEPT !.RoutingTable = status.RoutingTable]
         /\ SubSeq(status'.RoutingTable, 1, Len(status.RoutingTable))
              = status.RoutingTable
    ELSE /\ Len(status'.ClientList) = Len(status.ClientList) + 1
         /\ status = [status' EXCEPT !.ClientList = status.ClientList]
         /\ SubSeq(status'.ClientList, 1, Len(status.ClientList))
              = status.ClientList

\* the record the step appended
NewRecord ==
    IF IsRouteLine(lineNum + 1) THEN Last(status'.RoutingTable)
    ELSE Last(status'.ClientList)

\* the record appended by the line just scanned
LastRecord ==
    IF IsRouteLine(lineNum) THEN Last(status.RoutingTable)
    ELSE Last(status.ClientList)

\* a step that consumes a client or route line meeting its floor
RecordStep ==
    ScanStep /\ IsRecordLine(lineNum + 1) /\ MeetsFloor(lineNum + 1)
\* the state right after such a line was consumed
JustDecoded ==
    JustScanned /\ IsRecordLine(lineNum) /\ MeetsFloor(lineNum)

(***************************************************************************)
(* C4 (as stated): every non-empty, non-numeric value in a numeric         *)
(* sub-field of a line meeting its floor leaves the record appended with   *)
(* that field 0 and has exactly one error in the list citing its field     *)
(* name, line number and raw value, also when several numeric sub-fields   *)
(* of the line are non-numeric.                                            *)
(***************************************************************************)
C4_EveryNonNumericCited ==
    [][RecordStep =>
         \A k \in 1..Len(Numerics(lineNum + 1)) :
           NonNumeric(NumText(lineNum + 1, k)) =>
             /\ RecordAppended
             /\ RecValue(NewRecord, NumName(lineNum + 1, k)) = 0
             /\ Cardinality({j \in 1..Len(parseErrors') :
                    Cites(parseErrors'[j], lineNum + 1, k)}) = 1]_vars

(***************************************************************************)
(* C4 (amended): every non-empty, non-numeric value in a numeric sub-field *)
(* of a line meeting its floor leaves the record appended with that field  *)
(* 0, and the line adds exactly one error, citing the line number and the  *)
(* name and raw value of the leftmost numeric sub-field of the line that   *)
(* fails to parse; the other non-numeric sub-fields of the line are cited  *)
(* by no error.                                                            *)
(***************************************************************************)
C4_LeftmostNonNumericCited ==
    [][RecordStep =>
         \A k \in 1..Len(Numerics(lineNum + 1)) :
           NonNumeric(NumText(lineNum + 1, k)) =>
             /\ RecordAppended
             /\ RecValue(NewRecord, NumName(lineNum + 1, k)) = 0
             /\ OneErrorAppended
             /\ Cites(Last(parseErrors'), lineNum + 1,
                      FirstMalformed(lineNum + 1))
             /\ k # FirstMalformed(lineNum + 1) =>
                  \A j \in 1..Len(parseErrors') :
                    ~Cites(parseErrors'[j], lineNum + 1, k)]_vars

\* a line with two non-numeric sub-fields was decoded: both are 0 in the
\* record and the one error of the line cites the left one
C4_Witness ==
    /\ JustDecoded
    /\ Cardinality({k \in 1..Len(Numerics(lineNum)) :
                      NonNumeric(NumText(lineNum, k))}) >= 2
    /\ \A k \in 1..Len(Numerics(lineNum)) :
         NonNumeric(NumText(lineNum, k)) =>
           RecValue(LastRecord, NumName(lineNum, k)) = 0
    /\ parseErrors # <<>>
    /\ Cites(Last(parseErrors), lineNum, FirstMalformed(lineNum))

(***************************************************************************)
(* C5: a line meeting its floor with one or more malformed numeric fields  *)
(* never loses its record: the record is appended with every malformed     *)
(* numeric field 0 and every well-formed field kept, and the line adds     *)
(* exactly one error, that of its leftmost failing field.                  *)
(***************************************************************************)
C5_MalformedLineKeepsRecord ==
    [][(RecordStep /\ MalformedAt(lineNum + 1) # {}) =>
         LET i == lineNum + 1
             f == LineFields(i)
         IN  /\ RecordAppended
             /\ \A k \in 1..Len(Numerics(i)) :
                  RecValue(NewRecord, NumName(i, k)) =
                    IF NumText(i, k) = <<>> \/ Malformed(NumText(i, k))
                    THEN 0 ELSE IntValue(NumText(i, k))
             /\ RecordType(i) = "CLIENT_V1" =>
                  /\ NewRecord.CommonName = f[1]
                  /\ NewRecord.ConnectedSince = f[5]
             /\ RecordType(i) = "CLIENT_LIST" =>
                  /\ NewRecord.CommonName = f[2]
                  /\ NewRecord.VirtualAddress = f[4]
                  /\ NewRecord.VirtualIPv6Address = f[5]
                  /\ NewRecord.ConnectedSince = f[8]
                  /\ NewRecord.Username = f[10]
                  /\ NewRecord.DataCipher = IF Len(f) >= 13 THEN f[13] ELSE <<>>
             /\ RecordType(i) = "ROUTING_TABLE" =>
                  /\ NewRecord.VirtualAddress = f[2]
                  /\ NewRecord.CommonName = f[3]
                  /\ NewRecord.LastRef = f[5]
             /\ OneErrorAppended
             /\ Cites(Last(parseErrors'), i, FirstMalformed(i))]_vars

\* a CLIENT_LIST line with a malformed and a well-formed numeric field was
\* decoded: the record is there, one field zero-filled, the other kept
C5_Witness ==
    /\ JustDecoded /\ RecordType(lineNum) = "CLIENT_LIST"
    /\ MalformedAt(lineNum) # {}
    /\ \E k \in 1..Len(Numerics(lineNum)) :
         /\ ~Malformed(NumText(lineNum, k))
         /\ RecValue(LastRecord, NumName(lineNum, k)) > 0
    /\ \E k \in MalformedAt(lineNum) :
         RecValue(LastRecord, NumName(lineNum, k)) = 0
    /\ Len(parseErrors) = 1

(***************************************************************************)
(* C6: on a client or route line meeting its floor, an empty numeric       *)
(* sub-field is 0 in the appended record and contributes no error: no      *)
(* error names it, and the line adds no error at all unless another of     *)
(* its numeric sub-fields is malformed.                                    *)
(***************************************************************************)
C6_EmptyNumericIsZero ==
    [][RecordStep =>
         LET i == lineNum + 1
         IN  \A k \in 1..Len(Numerics(i)) :
               NumText(i, k) = <<>> =>
                 /\ RecordAppended
                 /\ RecValue(NewRecord, NumName(i, k)) = 0
                 /\ \A j \in 1..Len(parseErrors') :
                      ~Cites(parseErrors'[j], i, k)
                 /\ MalformedAt(i) = {} => NoErrorAppended]_vars

\* a route line with an empty last-reference epoch was decoded without error
C6_Witness ==
    /\ JustDecoded /\ IsRouteLine(lineNum)
    /\ NumText(lineNum, 1) = <<>>
    /\ LastRecord.LastRefTime = 0
    /\ parseErrors = <<>>

(***************************************************************************)
(* Vocabulary of the properties: the real-address field                    *)
(***************************************************************************)
\* the real-address field of record line i (section 4.2)
AddressField(i) ==
    LET f == LineFields(i)
    IN  CASE RecordType(i) = "CLIENT_V1" -> f[2]
          [] RecordType(i) = "CLIENT_LIST" -> f[3]
          [] RecordType(i) = "ROUTING_TABLE" -> f[4]

\* the position of the last ':' of s; 0 when there is none
LastColon(s) ==
    IF \E j \in 1..Len(s) : s[j] = ":"
    THEN CHOOSE j \in 1..Len(s) :
           s[j] = ":" /\ \A m \in (j + 1)..Len(s) : s[m] # ":"
    ELSE 0

\* the address part of an address:port text: what precedes the last ':'
AddressPart(s) ==
    IF LastColon(s) = 0 THEN s ELSE SubSeq(s, 1, LastColon(s) - 1)

(***************************************************************************)
(* C7: for every client and route record, in every version, the stored     *)
(* real address is the real-address field up to its LAST ':' (so an        *)
(* address that contains colons keeps everything before the final one).    *)
(***************************************************************************)
C7_RealAddressSplitAtLastColon ==
    JustDecoded => LastRecord.RealAddress = AddressPart(AddressField(lineNum))

(***************************************************************************)
(* C8: after a client line whose real-address field is <ip>:<port>, the    *)
(* client's RealAddress is the full <ip>:<port> text of the status file.   *)
(***************************************************************************)
C8_RealAddressKeepsPort ==
    (JustDecoded /\ IsClientLine(lineNum)
       /\ LastColon(AddressField(lineNum)) # 0) =>
      LastRecord.RealAddress = AddressField(lineNum)

(***************************************************************************)
(* C9: under version 1, every line with at least 5 fields and valid        *)
(* numeric fields appends exactly one client whose commonName is field 0,  *)
(* realAddress the address part of field 1, bytesReceived and bytesSent    *)
(* the integer values of fields 2 and 3 and connectedSince field 4, with   *)
(* no error; fields beyond the fifth are ignored.                          *)
(***************************************************************************)
C9_Version1ClientDecoded ==
    [][(ScanStep /\ version = 1 /\ ~IsBlank(lineNum + 1)
          /\ NumFields(lineNum + 1) >= 5
          /\ \A k \in {3, 4} :
               /\ IsDecimal(LineFields(lineNum + 1)[k])
               /\ ~Malformed(LineFields(lineNum + 1)[k])) =>
         LET f == LineFields(lineNum + 1)
         IN  /\ RecordAppended
             /\ NewRecord.CommonName = f[1]
             /\ NewRecord.RealAddress = AddressPart(f[2])
             /\ NewRecord.BytesReceived = IntValue(f[3])
             /\ NewRecord.BytesSent = IntValue(f[4])
             /\ NewRecord.ConnectedSince = f[5]
             /\ NoErrorAppended]_vars

(***************************************************************************)
(* C10: under version 1, after any sequence of lines, every client has     *)
(* empty virtual address, virtual IPv6 address, username and cipher and    *)
(* zero connect epoch, client id and peer id, and the model has an empty   *)
(* title, empty time fields and an empty routing table, also when lines    *)
(* begin with a version-2/3 tag such as TITLE or ROUTING_TABLE.            *)
(***************************************************************************)
C10_Version1BasicFieldsOnly ==
    (version = 1 /\ statusPtr = "ptr") =>
      /\ \A j \in 1..Len(status.ClientList) :
           LET c == status.ClientList[j]
           IN  /\ c.VirtualAddress = <<>>
               /\ c.VirtualIPv6Address = <<>>
               /\ c.Username = <<>>
               /\ c.DataCipher = <<>>
               /\ c.ConnectedSinceTime = 0
               /\ c.ClientID = 0
               /\ c.PeerID = 0
      /\ status.Title = <<>>
      /\ status.Time = <<>>
      /\ status.RoutingTable = <<>>

\* under version 1 a ROUTING_TABLE line was scanned after a TITLE line and
\* was decoded as a client
C10_Witness ==
    /\ version = 1 /\ JustScanned /\ lineNum = 2
    /\ LineFields(1)[1] = TITLE
    /\ LineFields(2)[1] = ROUTING_TABLE
    /\ Len(status.ClientList) = 1
    /\ status.ClientList[1].CommonName = ROUTING_TABLE

(***************************************************************************)
(* Vocabulary of the properties: two calls of ParseFile                    *)
(***************************************************************************)
\* a second call has returned; neither call met a read failure
SecondReturned ==
    pc = "returned" /\ first # <<>> /\ ~scanErr /\ ~first[1].scanErr

\* no line of the file f holds character c
NoCharInFile(f, c) ==
    \A i \in 1..Len(f) : \A j \in 1..Len(f[i]) : f[i][j] # c

(***************************************************************************)
(* C11: the model is uniform across versions 2 and 3: a version-2 file     *)
(* whose fields hold no tab, parsed as version 2, and the same file with   *)
(* every comma replaced by a tab, parsed as version 3, give equal models   *)
(* and the same number of errors, also for lines with empty trailing       *)
(* fields.                                                                 *)
(***************************************************************************)
C11_UniformAcrossV2V3 ==
    (SecondReturned /\ first[1].version = 2 /\ version = 3
       /\ NoCharInFile(first[1].file, TAB)) =>
      /\ status = first[1].status
      /\ Len(parseErrors) = Len(first[1].parseErrors)

(***************************************************************************)
(* C13: ParseFile is deterministic and keeps no state between calls: two   *)
(* calls on the same unchanged file with the same version return equal     *)
(* models and equal error lists, and each call returns a model instance    *)
(* of its own.                                                             *)
(***************************************************************************)
C13_SecondCallSameResult ==
    (SecondReturned /\ first[1].version = version /\ first[1].file = file) =>
      /\ statusPtr = first[1].statusPtr
      /\ parseErrors = first[1].parseErrors
      /\ statusPtr = "ptr" =>
           /\ status = first[1].status
           /\ instance # first[1].instance

\* the second call on a file with a failing line and a client line has
\* returned the client and the error once more
C13_Witness ==
    /\ SecondReturned /\ first[1].version = version /\ first[1].file = file
    /\ statusPtr = "ptr"
    /\ Len(status.ClientList) = 1 /\ Len(first[1].status.ClientList) = 1
    /\ Len(parseErrors) = 1 /\ Len(first[1].parseErrors) = 1

(***************************************************************************)
(* Vocabulary of the properties: the line an entry of the model came from  *)
(***************************************************************************)
\* the lines among the first n that append a client (a route), in order
RECURSIVE ClientLinesUpTo(_)
ClientLinesUpTo(n) ==
    IF n = 0 THEN <<>>
    ELSE IF IsClientLine(n) /\ MeetsFloor(n)
         THEN Append(ClientLinesUpTo(n - 1), n)
         ELSE ClientLinesUpTo(n - 1)

RECURSIVE RouteLinesUpTo(_)
RouteLinesUpTo(n) ==
    IF n = 0 THEN <<>>
    ELSE IF IsRouteLine(n) /\ MeetsFloor(n)
         THEN Append(RouteLinesUpTo(n - 1), n)
         ELSE RouteLinesUpTo(n - 1)

\* the common-name field of client line i (section 4.2)
CommonNameField(i) ==
    IF RecordType(i) = "CLIENT_V1" THEN LineFields(i)[1] ELSE LineFields(i)[2]

(***************************************************************************)
(* C14 (as stated): after any parse every client has a non-empty common    *)
(* name and every route a non-empty virtual address and common name.       *)
(***************************************************************************)
C14_RequiredStringsNonEmpty ==
    statusPtr = "ptr" =>
      /\ \A k \in 1..Len(status.ClientList) :
           status.ClientList[k].CommonName # <<>>
      /\ \A k \in 1..Len(status.RoutingTable) :
           /\ status.RoutingTable[k].VirtualAddress # <<>>
           /\ status.RoutingTable[k].CommonName # <<>>

(***************************************************************************)
(* C14 (amended): after any parse every entry of clients and routes holds  *)
(* the required string fields of its line verbatim: a client's common      *)
(* name, a route's virtual address and common name are the texts of those  *)
(* fields of the line the entry came from, empty only when the field is    *)
(* empty in the file; no string field is defaulted.                        *)
(***************************************************************************)
C14_RequiredStringsVerbatim ==
    statusPtr = "ptr" =>
      /\ Len(status.ClientList) = Len(ClientLinesUpTo(lineNum))
      /\ \A k \in 1..Len(status.ClientList) :
           status.ClientList[k].CommonName =
             CommonNameField(ClientLinesUpTo(lineNum)[k])
      /\ Len(status.RoutingTable) = Len(RouteLinesUpTo(lineNum))
      /\ \A k \in 1..Len(status.RoutingTable) :
           LET f == LineFields(RouteLinesUpTo(lineNum)[k])
           IN  /\ status.RoutingTable[k].VirtualAddress = f[2]
               /\ status.RoutingTable[k].CommonName = f[3]

\* a route line with an empty virtual address and a client line with an
\* empty common name were decoded into entries with those fields empty
C14_Witness ==
    /\ pc = "returned" /\ statusPtr = "ptr" /\ lineNum = 2
    /\ Len(status.ClientList) = 1 /\ Len(status.RoutingTable) = 1
    /\ status.ClientList[1].CommonName = <<>>
    /\ status.RoutingTable[1].VirtualAddress = <<>>
    /\ status.RoutingTable[1].CommonName # <<>>

(***************************************************************************)
(* C15: after any parse every client has bytesReceived >= 0 and            *)
(* bytesSent >= 0: a byte count that is not a non-negative 64-bit integer  *)
(* (negatively signed, or too large) leaves the field at 0.                *)
(***************************************************************************)
C15_ByteCountsNonNegative ==
    statusPtr = "ptr" =>
      \A k \in 1..Len(status.ClientList) :
        /\ status.ClientList[k].BytesReceived >= 0
        /\ status.ClientList[k].BytesSent >= 0

(***************************************************************************)
(* Vocabulary of the properties: the status-version directives of a        *)
(* config file                                                             *)
(***************************************************************************)
ConfigTokens(i) == Fields(TrimSpace(cfgFile[i]))

\* line i is a status-version directive that carries a value
IsVersionDirective(i) ==
    /\ Len(ConfigTokens(i)) >= 2
    /\ ConfigTokens(i)[1] = DirStatusVersion

VersionDirectives == {i \in 1..Len(cfgFile) : IsVersionDirective(i)}

LastVersionDirective ==
    CHOOSE i \in VersionDirectives : \A j \in VersionDirectives : j <= i

\* the value of directive i is one of 1, 2, 3
ValueInRange(i) == ConfigTokens(i)[2] \in {<<"1">>, <<"2">>, <<"3">>}

\* ParseConfig returned a configuration (the file has a status directive)
ConfigReturned == cfgPc = "returned" /\ cfgPtr = "ptr"

(***************************************************************************)
(* C16: for a config file with a status directive the status version       *)
(* ParseConfig returns is 3 when the status-version value is out of 1..3   *)
(* or not a number, whatever precedes it (earlier status-version           *)
(* directives included), 3 when there is no status-version directive, and  *)
(* the value when it is in 1..3.                                           *)
(***************************************************************************)
C16_InvalidVersionFallsBackTo3 ==
    ConfigReturned =>
      config.StatusVersion =
        IF VersionDirectives = {} THEN 3
        ELSE IF ValueInRange(LastVersionDirective)
             THEN DigitVal(ConfigTokens(LastVersionDirective)[2][1])
             ELSE 3

(***************************************************************************)
(* Vocabulary of the properties: the metrics exposition                    *)
(***************************************************************************)
\* a direct call of OpenMetricsFormatter.Format has returned
MetricsReturned ==
    fmtPc = "formatted" /\ output # <<>> /\ output[1].format = "openmetrics"

IsSampleOf(name, line) == line.kind = "sample" /\ line.name = name
SamplesOf(name) == SelectSeq(output[1].lines, LAMBDA l : IsSampleOf(name, l))

HasConnectEpoch(c) == c.ConnectedSinceTime # 0

\* section 4.5: backslash, newline and double quote, each escaped once
EscapeOnce(s) ==
    IF s = <<>> THEN <<>>
    ELSE LET esc(c) == CASE c = BACKSLASH -> <<BACKSLASH, BACKSLASH>>
                         [] c = NEWLINE -> <<BACKSLASH, "n">>
                         [] c = QUOTE -> <<BACKSLASH, QUOTE>>
                         [] OTHER -> <<c>>
             RECURSIVE all(_)
             all(t) == IF t = <<>> THEN <<>> ELSE esc(Head(t)) \o all(Tail(t))
         IN  all(s)

\* the label value v as the claim has it written, between its quotes
WrittenOnce(v) == <<QUOTE>> \o EscapeOnce(v) \o <<QUOTE>>

\* the strings of the model that are written as label values
LabelSources ==
    {status.Title, status.Server[1].ID, status.Server[1].Local,
     status.Server[1].Port, status.Server[1].Proto, status.Server[1].Dev}
      \cup {status.Time[i] : i \in 1..Len(status.Time)}
      \cup UNION {{c.CommonName, c.RealAddress, c.VirtualAddress, c.Username} :
                    c \in {status.ClientList[i] : i \in 1..Len(status.ClientList)}}
      \cup UNION {{r.CommonName, r.RealAddress, r.VirtualAddress} :
                    r \in {status.RoutingTable[i] :
                             i \in 1..Len(status.RoutingTable)}}

(***************************************************************************)
(* C19: in the metrics exposition the duration gauge                       *)
(* openvpn_client_connected_duration_seconds has a sample for a client     *)
(* only when the client's connect epoch is not 0, and when every client    *)
(* has connect epoch 0 no line of the output carries that metric name.     *)
(***************************************************************************)
C19_DurationOnlyWithConnectEpoch ==
    MetricsReturned =>
      /\ Len(SamplesOf(DURATION)) =
           Len(SelectSeq(status.ClientList, HasConnectEpoch))
      /\ (\A k \in 1..Len(status.ClientList) :
            ~HasConnectEpoch(status.ClientList[k]))
           => \A i \in 1..Len(output[1].lines) :
                output[1].lines[i].name # DURATION

(***************************************************************************)
(* C20: every label value written in the metrics exposition is the         *)
(* model's string with the escaping applied exactly once (backslash to     *)
(* two backslashes, newline to backslash-n, double quote to                *)
(* backslash-quote): the common name of the k-th client is written so in   *)
(* the k-th sample of the per-client metrics, and every label value of    *)
(* the output is a string of the model written so.                         *)
(***************************************************************************)
C20_LabelValuesEscapedOnce ==
    MetricsReturned =>
      /\ \A name \in {BYTES_RECEIVED, BYTES_SENT, CONNECTED} :
           \A k \in 1..Len(status.ClientList) :
             /\ k <= Len(SamplesOf(name))
             /\ SamplesOf(name)[k].labels[1].text =
                  WrittenOnce(status.ClientList[k].CommonName)
      /\ \A i \in 1..Len(output[1].lines) :
           \A j \in 1..Len(output[1].lines[i].labels) :
             \E v \in LabelSources :
               output[1].lines[i].labels[j].text = WrittenOnce(v)

(***************************************************************************)
(* Vocabulary of the properties: the runs of main                          *)
(***************************************************************************)
Exited == pc = "exited" /\ exitCode # <<>>

\* the run wrote the structured document to standard output
DocumentWritten ==
    Exited /\ Len(stdout) = 1 /\ stdout[1].format = "json"

\* the number of entries of clientList in the written document
WrittenClients == Len(stdout[1].doc["clientList"])

\* the lines of the file whose first tab-separated field is CLIENT_LIST
TaggedClientList == {i \in 1..Len(file) : Split(file[i], TAB)[1] = CLIENT_LIST}

\* the lines of the file that ParseFile decodes into a client
DecodedClientLines == {i \in 1..Len(file) : IsClientLine(i) /\ MeetsFloor(i)}

\* ParseFile was called in this run and returned a model
ParsedWithModel == cfgPc = "returned" /\ cfgErr = <<>> /\ statusPtr = "ptr"

\* the fatal failures of a run
NoFileFlag == ~flags.version /\ flags.file = ""
InvalidFormat == ~flags.version /\ flags.file # "" /\ flags.format \notin Formats
ConfigFailed == cfgPc = "returned" /\ cfgErr # <<>>
NoStatusDirective ==
    cfgPc = "returned" /\ cfgErr = <<"no 'status' directive found in config file">>
StatusUnopenable ==
    /\ cfgPc = "returned" /\ cfgErr = <<>>
    /\ pc \in {"returned", "exited"} /\ statusPtr = "nil"
FatalFailure == NoFileFlag \/ InvalidFormat \/ ConfigFailed \/ StatusUnopenable

\* standard output holds exactly the formatted model
FullOutputWritten ==
    /\ Len(stdout) = 1
    /\ \E now \in Nows : stdout[1] = FormatWith(flags, status, now)

(***************************************************************************)
(* C12 (as stated): for every version-3 file, the number of entries of     *)
(* clientList in the structured document equals the number of lines of     *)
(* the input whose first tab-separated field is CLIENT_LIST.               *)
(***************************************************************************)
C12_ClientCountIsTaggedLines ==
    (DocumentWritten /\ version = Version3) =>
      /\ "clientList" \in DOMAIN stdout[1].doc
      /\ WrittenClients = Cardinality(TaggedClientList)

(***************************************************************************)
(* C12 (amended): for every version-3 file that is read to its end, the    *)
(* number of entries of clientList in the structured document equals the   *)
(* number of lines that, with the surrounding white space removed, have    *)
(* CLIENT_LIST as first tab-separated field and at least 12 fields.        *)
(***************************************************************************)
C12_ClientCountIsDecodedLines ==
    (DocumentWritten /\ version = Version3 /\ ~scanErr) =>
      /\ "clientList" \in DOMAIN stdout[1].doc
      /\ WrittenClients = Cardinality(DecodedClientLines)

\* a version-3 file with two CLIENT_LIST lines, one of them below the
\* floor, was written as a document with one client
C12_Witness ==
    /\ DocumentWritten /\ version = Version3 /\ ~scanErr
    /\ Cardinality(TaggedClientList) = 2
    /\ Cardinality(DecodedClientLines) = 1
    /\ WrittenClients = 1

(***************************************************************************)
(* C17 (as stated): the exit code is 0 exactly when the parse produced no  *)
(* errors, 2 exactly when the status file was opened and parsed with one   *)
(* or more errors, 1 for every fatal failure; with exit code 2 the full    *)
(* formatted output has been written to standard output.                   *)
(***************************************************************************)
C17_ExitCodes ==
    Exited =>
      /\ exitCode = <<0>> <=> (ParsedWithModel /\ Len(parseErrors) = 0)
      /\ exitCode = <<2>> <=> (ParsedWithModel /\ Len(parseErrors) > 0)
      /\ FatalFailure => exitCode = <<1>>
      /\ exitCode = <<2>> => FullOutputWritten

(***************************************************************************)
(* C17 (amended): the exit code is 0 exactly when the version flag was     *)
(* given (nothing is parsed) or the parse produced no errors, 2 exactly    *)
(* when the status file was opened and parsed with one or more errors, 1   *)
(* exactly for the fatal failures (missing -file flag, invalid format,     *)
(* config error, unopenable status file); with exit code 2 the full        *)
(* formatted output has been written to standard output.                   *)
(***************************************************************************)
C17_ExitCodesWithVersionFlag ==
    Exited =>
      /\ exitCode = <<0>> <=>
           (flags.version \/ (ParsedWithModel /\ Len(parseErrors) = 0))
      /\ exitCode = <<2>> <=> (ParsedWithModel /\ Len(parseErrors) > 0)
      /\ exitCode = <<1>> <=> FatalFailure
      /\ exitCode = <<2>> => FullOutputWritten

\* a run ended with code 2 after a parse with an error and one client
C17_Witness ==
    /\ Exited /\ exitCode = <<2>>
    /\ Len(parseErrors) = 1 /\ Len(status.ClientList) = 1
    /\ FullOutputWritten

(***************************************************************************)
(* C18: a fatal error aborts the run before any data output: once the      *)
(* status file could not be opened or the config was found to lack its     *)
(* status directive, nothing is ever written to standard output and the    *)
(* run exits with code 1; the recoverable errors go to the error channel   *)
(* only, and what is written to standard output is the formatted model,    *)
(* whatever the errors.                                                    *)
(***************************************************************************)
C18_FatalBeforeOutput ==
    /\ (NoStatusDirective \/ StatusUnopenable) =>
         /\ stdout = <<>>
         /\ Exited => exitCode = <<1>>
    /\ (Exited /\ ParsedWithModel) =>
         /\ FullOutputWritten
         /\ Len(parseErrors) > 0 =>
              \E i \in 1..Len(stderr) : stderr[i] = Warning(parseErrors)
         /\ \A i \in 1..Len(stderr) :
              stderr[i].errors # <<>> => stderr[i].errors = parseErrors

\* a run ended on an unopenable status file with nothing on standard output
C18_WitnessFatal ==
    /\ Exited /\ StatusUnopenable /\ exitCode = <<1>> /\ stdout = <<>>
    /\ Len(stderr) = 3

(***************************************************************************)
(* Vocabulary of the properties: the structured document                   *)
(***************************************************************************)
\* a direct call of JSONFormatter.Format has returned
DocumentReturned ==
    fmtPc = "formatted" /\ output # <<>> /\ output[1].format = "json"

ReturnedDoc == output[1].doc

\* key is written in object obj exactly when present holds
KeyIff(obj, key, present) == (key \in DOMAIN obj) <=> present

\* the keys of the object of client c
ClientKeysAsClaimed(obj, c) ==
    /\ {"commonName", "realAddress", "bytesReceived", "bytesSent",
        "connectedSince"} \subseteq DOMAIN obj
    /\ KeyIff(obj, "virtualAddress", c.VirtualAddress # <<>>)
    /\ KeyIff(obj, "virtualIPv6Address", c.VirtualIPv6Address # <<>>)
    /\ KeyIff(obj, "connectedSinceTime", c.ConnectedSinceTime # 0)
    /\ KeyIff(obj, "username", c.Username # <<>>)
    /\ KeyIff(obj, "clientId", c.ClientID # 0)
    /\ KeyIff(obj, "peerId", c.PeerID # 0)
    /\ KeyIff(obj, "dataCipher", c.DataCipher # <<>>)

C22_ServerGaugesAndEOF ==
    MetricsReturned =>
      /\ Len(SamplesOf(CLIENTS_TOTAL)) = 1
      /\ SamplesOf(CLIENTS_TOTAL)[1].value = Len(status.ClientList)
      /\ Len(SamplesOf(CLIENTS_TOTAL)[1].labels) = 1
      /\ SamplesOf(CLIENTS_TOTAL)[1].labels[1].name = "server_id"
      /\ Len(SamplesOf(ROUTES_TOTAL)) = 1
      /\ SamplesOf(ROUTES_TOTAL)[1].value = Len(status.RoutingTable)
      /\ Len(SamplesOf(ROUTES_TOTAL)[1].labels) = 1
      /\ SamplesOf(ROUTES_TOTAL)[1].labels[1].name = "server_id"
      /\ output[1].lines[Len(output[1].lines)].kind = "EOF"

\* a model with two clients and no route was formatted
C22_Witness ==
    /\ MetricsReturned
    /\ Len(status.ClientList) = 2 /\ status.RoutingTable = <<>>
    /\ SamplesOf(CLIENTS_TOTAL)[1].value = 2
    /\ SamplesOf(ROUTES_TOTAL)[1].value = 0

(***************************************************************************)
(* C23: the file handle is released on every exit path of ParseFile: once  *)
(* ParseFile has returned (clean parse, parse with decode errors, read     *)
(* failure) the handle it opened is closed, and when the open fails no     *)
(* handle is left open.                                                    *)
(***************************************************************************)
C23_HandleReleased ==
    pc = "returned" =>
      /\ handle # "open"
      /\ statusPtr = "ptr" => handle = "closed"
      /\ statusPtr = "nil" => handle = "none"

\* ParseFile returned on a read failure after one line that failed to
\* decode, and the handle is closed
C23_Witness ==
    /\ pc = "returned" /\ scanErr /\ lineNum = 1 /\ Len(file) = 2
    /\ Len(parseErrors) = 2
    /\ handle = "closed"

(***************************************************************************)
(* Vocabulary of the properties: a file and the same file without its      *)
(* blank lines                                                             *)
(***************************************************************************)
\* both calls have returned without a read failure, the second one on the
\* file of the first without its blank lines
BlanksRemoved ==
    /\ SecondReturned
    /\ first[1].version = version
    /\ file = WithoutBlanks(first[1].file)
    /\ file # first[1].file

\* the step scans a line that is empty after trimming
BlankStep == ScanStep /\ IsBlank(lineNum + 1)

\* every line of the file is empty after trimming (none, for an empty file)
OnlyBlankLines == WithoutBlanks(file) = <<>>

(***************************************************************************)
(* C24: blank lines have no effect on the model: scanning a line that is   *)
(* empty after trimming adds no record and no error; the file without its  *)
(* blank lines gives an equal model and the same number of errors; an      *)
(* empty file, or one of blank lines only, gives a present model with no   *)
(* client, no route and no error.                                          *)
(***************************************************************************)
C24_BlankLinesNoEffect ==
    [][/\ BlankStep => UNCHANGED <<status, parseErrors>>
       /\ BlanksRemoved' =>
            /\ status' = first'[1].status
            /\ Len(parseErrors') = Len(first'[1].parseErrors)
       /\ (pc' = "returned" /\ statusPtr' = "ptr" /\ ~scanErr' /\ OnlyBlankLines')
            => /\ status'.ClientList = <<>>
               /\ status'.RoutingTable = <<>>
               /\ parseErrors' = <<>>]_vars

\* a file of a blank line and a client line, and the same file without
\* the blank line, both gave one client
C24_Witness ==
    /\ BlanksRemoved
    /\ Len(first[1].file) = 2 /\ Len(file) = 1
    /\ Len(status.ClientList) = 1 /\ Len(first[1].status.ClientList) = 1

(***************************************************************************)
(* Vocabulary of the properties: the entries and the lines they come from  *)
(***************************************************************************)
\* the step scans a line of versions 2 and 3 whose tag is HEADER or is not
\* one of TITLE, TIME, CLIENT_LIST, ROUTING_TABLE
IgnoredStep ==
    /\ ScanStep
    /\ version \in {Version2, Version3}
    /\ ~IsBlank(lineNum + 1)
    /\ RecordType(lineNum + 1) = "IGNORED"

IsPrefix(s, t) == Len(s) <= Len(t) /\ SubSeq(t, 1, Len(s)) = s

\* the model after line i alone is decoded into an empty model
AloneDecoded(i) ==
    parseLine(TrimmedLine(i), EmptyStatus, i, version,
              DelimiterFor(version)).status

\* the clients (routes) of the lines 1..n that append one, in file order
ClientsInFileOrder(n) ==
    [k \in 1..Len(ClientLinesUpTo(n)) |->
       AloneDecoded(ClientLinesUpTo(n)[k]).ClientList[1]]
RoutesInFileOrder(n) ==
    [k \in 1..Len(RouteLinesUpTo(n)) |->
       AloneDecoded(RouteLinesUpTo(n)[k]).RoutingTable[1]]

\* the lines among the first n for which the decoder returns an error
RECURSIVE ErrorLinesUpTo(_)
ErrorLinesUpTo(n) ==
    IF n = 0 THEN <<>>
    ELSE IF DecoderError(n) # <<>> THEN Append(ErrorLinesUpTo(n - 1), n)
         ELSE ErrorLinesUpTo(n - 1)

\* the TITLE (TIME) lines among the first n that have at least 2 fields
TitleLinesUpTo(n) ==
    {i \in 1..n : ~IsBlank(i) /\ RecordType(i) = "TITLE" /\ NumFields(i) >= 2}
TimeLinesUpTo(n) ==
    {i \in 1..n : ~IsBlank(i) /\ RecordType(i) = "TIME" /\ NumFields(i) >= 2}

Latest(S) == CHOOSE i \in S : \A j \in S : j <= i

(***************************************************************************)
(* C25: under versions 2 and 3 a line whose first field is HEADER or any   *)
(* tag other than TITLE, TIME, CLIENT_LIST and ROUTING_TABLE leaves the    *)
(* whole model unchanged and produces no error, whatever its fields.       *)
(***************************************************************************)
C25_OtherTagsIgnored ==
    [][IgnoredStep => UNCHANGED <<status, statusPtr, parseErrors>>]_vars

\* a HEADER line of 3 fields was scanned after a client line: the model
\* still has the one client and there is no error
C25_Witness ==
    /\ JustScanned /\ lineNum = 2 /\ version = Version2
    /\ RecordType(2) = "IGNORED" /\ NumFields(2) = 3
    /\ Len(status.ClientList) = 1 /\ parseErrors = <<>>

(***************************************************************************)
(* C26: the client and route sequences are append-only during a scan and   *)
(* keep file order: no step of the scan modifies, removes or reorders an   *)
(* entry already appended, and the entries of the model are those of the   *)
(* lines that append one, in the order of the lines in the file.           *)
(***************************************************************************)
C26_AppendOnlyFileOrder ==
    [][pc = "scan" =>
         /\ IsPrefix(status.ClientList, status'.ClientList)
         /\ IsPrefix(status.RoutingTable, status'.RoutingTable)
         /\ status'.ClientList = ClientsInFileOrder(lineNum')
         /\ status'.RoutingTable = RoutesInFileOrder(lineNum')]_vars

\* two different routes were appended, the one of line 1 first
C26_Witness ==
    /\ pc = "returned" /\ ~scanErr /\ lineNum = 2
    /\ Len(status.RoutingTable) = 2
    /\ status.RoutingTable[1] # status.RoutingTable[2]
    /\ status.RoutingTable[1] = AloneDecoded(1).RoutingTable[1]
    /\ status.RoutingTable[2] = AloneDecoded(2).RoutingTable[1]

(***************************************************************************)
(* C27: when reading the file fails mid-stream ParseFile appends exactly   *)
(* one read error as the last element of the error list, after the decode  *)
(* errors of the lines read before the failure, and returns the non-nil    *)
(* model with every record decoded from those lines.                       *)
(***************************************************************************)
C27_ReadErrorLast ==
    [][(~scanErr /\ scanErr') =>
         /\ parseErrors' = Append(parseErrors, WrappedError("read"))
         /\ parseErrors = DecoderErrorsUpTo(lineNum)
         /\ pc' = "returned"
         /\ statusPtr' = "ptr"
         /\ status' = status
         /\ Len(status'.ClientList) = Len(ClientLinesUpTo(lineNum))
         /\ Len(status'.RoutingTable) = Len(RouteLinesUpTo(lineNum))]_vars

\* the read failed after a client line and a line that failed to decode
C27_Witness ==
    /\ pc = "returned" /\ scanErr /\ lineNum = 2
    /\ Len(parseErrors) = 2
    /\ parseErrors[1].Line = 2 /\ parseErrors[2] = WrappedError("read")
    /\ Len(status.ClientList) = 1

(***************************************************************************)
(* C28: the line number of every recoverable error is the 1-indexed        *)
(* position of its line in the file, blank and ignored lines before it     *)
(* counted; the line numbers in the error list are strictly increasing.    *)
(***************************************************************************)
C28_ErrorLineNumbers ==
    (pc \in {"scan", "returned"} /\ statusPtr = "ptr") =>
      /\ Len(DecodeErrors) = Len(ErrorLinesUpTo(lineNum))
      /\ \A k \in 1..Len(DecodeErrors) :
           DecodeErrors[k].Line = ErrorLinesUpTo(lineNum)[k]
      /\ \A k \in 1..Len(DecodeErrors) - 1 :
           DecodeErrors[k].Line < DecodeErrors[k + 1].Line

\* the second line failed to decode, after a blank line
C28_Witness ==
    /\ pc = "returned" /\ ~scanErr /\ lineNum = 2
    /\ IsBlank(1)
    /\ Len(parseErrors) = 1 /\ parseErrors[1].Line = 2

(***************************************************************************)
(* C29: under versions 2 and 3 the title of the model is field 1 of the    *)
(* last TITLE line with at least 2 fields (empty if none) and the time     *)
(* sequence is, in order, all fields after the tag of the last TIME line   *)
(* with at least 2 fields (empty if none): a later line replaces the       *)
(* earlier value, a line below the floor leaves it in place.               *)
(***************************************************************************)
C29_LastTitleAndTime ==
    (pc \in {"scan", "returned"} /\ version \in {Version2, Version3}) =>
      /\ status.Title =
           IF TitleLinesUpTo(lineNum) = {} THEN <<>>
           ELSE LineFields(Latest(TitleLinesUpTo(lineNum)))[2]
      /\ status.Time =
           IF TimeLinesUpTo(lineNum) = {} THEN <<>>
           ELSE Tail(LineFields(Latest(TimeLinesUpTo(lineNum))))

\* two TITLE lines with different titles: the model has the second title
C29_WitnessTitle ==
    /\ pc = "returned" /\ ~scanErr /\ lineNum = 2 /\ version = Version3
    /\ TitleLinesUpTo(2) = {1, 2}
    /\ LineFields(1)[2] # LineFields(2)[2]
    /\ status.Title = LineFields(2)[2]

(***************************************************************************)
(* C30: in every run of main the steps come in the order config parse,     *)
(* status parse, attach server metadata, format, write output: what is     *)
(* written as data is the format of a present model that has its server    *)
(* metadata attached, the server metadata is absent from the model         *)
(* throughout the parse, and the parse starts only after the config parse  *)
(* has returned a configuration.                                           *)
(***************************************************************************)
C30_StepsInOrder ==
    [][/\ (stdout' # stdout /\ ~flags.version) =>
            /\ pc = "returned" /\ cfgPc = "returned"
            /\ statusPtr = "ptr"
            /\ status.Server = <<>>
            /\ status'.Server = <<serverConfigOf(config)>>
            /\ \E now \in Nows :
                 stdout' = Append(stdout, FormatWith(flags, status', now))
       /\ pc' \in {"open", "scan", "returned"} =>
            /\ status'.Server = <<>>
            /\ cfgPc' = "returned" /\ cfgErr' = <<>>
       /\ cfgPc' \in {"open", "scan"} =>
            /\ pc' = "config"
            /\ statusPtr' = "nil" /\ stdout' = <<>>]_vars

\* a run wrote the metrics of a model with one client and the server
\* metadata of the config file
C30_Witness ==
    /\ Exited /\ Len(stdout) = 1 /\ stdout[1].format = "openmetrics"
    /\ status.Server = <<serverConfigOf(config)>>
    /\ Len(status.ClientList) = 1
    /\ SelectSeq(stdout[1].lines, LAMBDA l : IsSampleOf(CONNECTED, l)) # <<>>

=============================================================================
